---------------------------- MODULE Spec2Model ----------------------------
(***************************************************************************)
(* Model of testforge's dynamic protobuf layer:                            *)
(*   src/src/protocols/protobuf_handler.py  (ProtobufHandler)              *)
(*   src/src/api/main.py                    (send_request, upload route)   *)
(* Request threads of the host service call the handler concurrently; the  *)
(* handler takes no lock, so every statement boundary of the source that   *)
(* touches shared state (files, _loaded_modules, sys.modules, the default  *)
(* descriptor pool) is a separate step here.                               *)
(***************************************************************************)
EXTENDS Integers, Sequences, FiniteSets, TLC

VARIABLES
    protoFile,      \* proto_dir/<env>/<env>.proto : stored schema source, "-" if absent
    pb2File,        \* compiled_dir/<env>/<env>_pb2.py : the compiled artifact
    loaded,         \* ProtobufHandler._loaded_modules
    sysModules,     \* sys.modules["<env>_pb2"]
    compiledDir,    \* compiled_dir/<env>/ exists
    pool,           \* default descriptor pool: content registered for file "<env>.proto"
    pc,             \* position of each request thread
    env,            \* environment_name argument of the call a thread runs
    local,          \* local variable `module` of _load_proto_module / its caller
    csrc,           \* inside upload_proto_file: the uploaded source, then what protoc read
    res,            \* per thread: outcome of its last request, until it starts the next
    calls,          \* number of requests started so far
    cpc,            \* codec run: position
    cMod,           \* codec run: module _load_proto_module returned
    cType,          \* codec run: message_name
    cVal,           \* codec run: json_data
    cEnc,           \* codec run: outcome of json_to_protobuf
    cIn,            \* codec run: binary_data given to protobuf_to_json
    cDec,           \* codec run: outcome of protobuf_to_json
    rpc,            \* response path of send_request: position
    rUse,           \* response path: use_protobuf
    rType,          \* response path: payload.response_message_type
    rCT,            \* response path: Content-Type header of the target's answer
    rRaw,           \* response path: what the target answered
    rBody,          \* response path: Response.body built by HTTPHandler
    rData,          \* response path: response_data returned to the client
    rOut,           \* response path: HTTP status send_request answers with
    parPc,          \* parallel encodes: position of each json_to_protobuf call
    parVal,         \* parallel encodes: json_data of each call
    parLeft,        \* parallel encodes: keys of json_data ParseDict has not set yet
    parMsg,         \* parallel encodes: the message objects, by owner
    parOut,         \* parallel encodes: what each call returned
    txtIn,          \* schema text: content of the .proto file before any rewrite
    txt,            \* schema text: content of the .proto file now
    runs,           \* schema text: the rewrite functions applied to the file, in order
    upc,            \* schema text: position of the upload of the file
    uploaded,       \* schema text: proto_content read from the uploaded file
    stored,         \* schema text: what save_proto_file wrote
    compiled,       \* schema text: what compile_proto handed to protoc
    sendPc,         \* send_request: position
    payEnv,         \* send_request: payload.environment
    payReqType,     \* send_request: payload.request_message_type
    payRespType,    \* send_request: payload.response_message_type
    payBody,        \* send_request: payload.body
    payCT,          \* send_request: Content-Type in payload.headers
    envMod,         \* send_request: what _load_proto_module gives for payload.environment
    useProtobuf,    \* send_request: local use_protobuf
    codecCalls,     \* send_request: calls made to the protobuf handler, in order
    outbound,       \* send_request: the request given to http_handler.send_request
    sendOut,        \* send_request: status of the HTTPException raised, 0 if none
    cfgPc,          \* validate_config: position
    cfg,            \* validate_config: the config argument
    cfgOut,         \* validate_config: what the call gave
    envProto,       \* upload route: protocol entry of each stored environment
    rtName,         \* upload route: per thread, the name of its last upload request
    rtFile,         \* upload route: per thread, file.filename of that request
    rtOut,          \* upload route: per thread, the status the checks raised, 0 if none
    results,        \* AssertionEngine.results
    returned,       \* AssertionEngine: what the last evaluate / evaluate_all call returned
    evaluated,      \* AssertionEngine: assertions given to the engine since the last reset
    failures,       \* AssertionEngine: those of them whose evaluation did not give True
    scenarios,      \* PressureStorage: the list in scenarios.json
    runList,        \* PressureStorage: the list in runs.json
    now,            \* PressureStorage: the clock behind run ids and completed_at
    known,          \* PressureStorage: ids of the scenarios create_scenario has returned
    streamPc,       \* generate_stream: position of the response generator
    genPc,          \* run_generation: position of the generation thread
    progress_queue, \* generate_testcases_stream: progress_queue
    result_container, \* what run_generation stored of generate's result
    error_container,  \* whether run_generation stored an error
    fileExists,     \* whether file_path exists
    emitted,        \* events the response generator has yielded, in order
    reported        \* progress reports the generator has made, in order

handlerVars == <<protoFile, pb2File, compiledDir, loaded, sysModules, pool, pc, env, local, csrc, res, calls>>
codecVars == <<cpc, cMod, cType, cVal, cEnc, cIn, cDec>>
respVars == <<rpc, rUse, rType, rCT, rRaw, rBody, rData, rOut>>
parVars == <<parPc, parVal, parLeft, parMsg, parOut>>
textVars == <<txtIn, txt, runs, upc, uploaded, stored, compiled>>
sendVars == <<sendPc, payEnv, payReqType, payRespType, payBody, payCT, envMod,
              useProtobuf, codecCalls, outbound, sendOut>>
cfgVars == <<cfgPc, cfg, cfgOut>>
routeVars == <<envProto, rtName, rtFile, rtOut>>
assertVars == <<results, returned, evaluated, failures>>
pressVars == <<scenarios, runList, now, known>>
streamVars == <<streamPc, genPc, progress_queue, result_container, error_container,
                fileExists, emitted, reported>>
laterVars == <<sendVars, cfgVars, routeVars, assertVars, pressVars, streamVars>>

\* what the actions of one part of the model leave alone
nonHandlerVars == <<codecVars, respVars, parVars, textVars, laterVars>>
nonCodecVars == <<handlerVars, respVars, parVars, textVars, laterVars>>
nonRespVars == <<handlerVars, codecVars, parVars, textVars, laterVars>>
nonParVars == <<handlerVars, codecVars, respVars, textVars, laterVars>>
nonTextVars == <<handlerVars, codecVars, respVars, parVars, laterVars>>
nonSendVars == <<handlerVars, codecVars, parVars, textVars, cfgVars, routeVars, assertVars, pressVars, streamVars>>

nonCfgVars == <<handlerVars, codecVars, respVars, parVars, textVars, sendVars, routeVars, assertVars, pressVars, streamVars>>
nonRouteVars == <<codecVars, respVars, parVars, textVars, sendVars, cfgVars, assertVars, pressVars, streamVars>>
nonAssertVars == <<handlerVars, codecVars, respVars, parVars, textVars, sendVars, cfgVars, routeVars, pressVars, streamVars>>
nonPressVars == <<handlerVars, codecVars, respVars, parVars, textVars, sendVars, cfgVars, routeVars, assertVars, streamVars>>
nonStreamVars == <<handlerVars, codecVars, respVars, parVars, textVars, sendVars, cfgVars, routeVars, assertVars, pressVars>>
vars == <<handlerVars, nonHandlerVars>>

Envs == {"A", "B"}
Threads == {"t1", "t2"}

(***************************************************************************)
(* Schemas.  "v1" and "v2" compile; "bad" is syntactically invalid.  Both  *)
(* compilable schemas define a top-level message Foo, with different       *)
(* fields, and declare no package.                                         *)
(***************************************************************************)
Schemas == {"v1", "v2"}
Sources == Schemas \cup {"bad"}

Field(name, json, num, kind) == [name |-> name, json |-> json, num |-> num, kind |-> kind]

FooV1 == <<Field("id", "id", 1, "int32")>>
FooV2 == <<Field("name", "name", 1, "string")>>
BarV2 == <<Field("id", "id", 1, "int32"),
           Field("big", "big", 2, "int64"),
           Field("user_name", "userName", 3, "string"),
           Field("flag", "flag", 4, "bool")>>

\* top-level message types a schema defines
SchemaMessages(s) ==
    CASE s = "v1" -> {"Foo"}
      [] s = "v2" -> {"Foo", "Bar"}
      [] OTHER -> {}

\* top-level enums a schema defines
SchemaEnums(s) ==
    CASE s = "v1" -> {"Color"}
      [] OTHER -> {}

MessageFields(s, T) ==
    CASE s = "v1" /\ T = "Foo" -> FooV1
      [] s = "v2" /\ T = "Foo" -> FooV2
      [] s = "v2" /\ T = "Bar" -> BarV2
      [] OTHER -> << >>


(***************************************************************************)
(* Structured (JSON) values.  Every value is a record of one shape so that *)
(* values of different Python types can be compared.                       *)
(***************************************************************************)
JInt(n) == [t |-> "int", n |-> n, s |-> ""]
JStr(s) == [t |-> "str", n |-> 0, s |-> s]
JBool(b) == [t |-> "bool", n |-> IF b THEN 1 ELSE 0, s |-> ""]

\* largest integer the model's payloads carry
IntLimit == 8

Digit == <<"0", "1", "2", "3", "4", "5", "6", "7", "8", "9">>

\* Python str(n) of a non-negative int
RECURSIVE DecimalStr(_)
DecimalStr(n) ==
    IF n < 10 THEN Digit[n + 1] ELSE DecimalStr(n \div 10) \o Digit[(n % 10) + 1]

IsDecimal(s) == \E n \in 0..IntLimit : DecimalStr(n) = s
\* Python int(s) of a decimal string
IntOf(s) == CHOOSE n \in 0..IntLimit : DecimalStr(n) = s

IsIntKind(kind) == kind \in {"int32", "int64"}

\* proto3 default of a scalar field
DefaultOf(kind) ==
    CASE IsIntKind(kind) -> JInt(0)
      [] kind = "string" -> JStr("")
      [] kind = "bool" -> JBool(FALSE)

FieldNames(fields) == {fields[i].name : i \in DOMAIN fields}

\* json_format looks a key up by json name first, then by proto field name
FieldByKey(fields, k) ==
    {i \in DOMAIN fields : fields[i].json = k \/ fields[i].name = k}

\* json_format._ConvertScalarFieldValue
ConvertScalar(kind, v) ==
    CASE IsIntKind(kind) /\ v.t = "int" -> [ok |-> TRUE, val |-> v]
      [] IsIntKind(kind) /\ v.t = "str" /\ IsDecimal(v.s) ->
            [ok |-> TRUE, val |-> JInt(IntOf(v.s))]
      [] kind = "string" /\ v.t = "str" -> [ok |-> TRUE, val |-> v]
      [] kind = "bool" /\ v.t = "bool" -> [ok |-> TRUE, val |-> v]
      [] OTHER -> [ok |-> FALSE, val |-> v]

\* json_format.ParseDict(json_data, message), ignore_unknown_fields left False:
\* a key that names no field, or a value of the wrong type, raises ParseError
ParseDict(fields, js) ==
    IF \E k \in DOMAIN js : FieldByKey(fields, k) = {}
    THEN [ok |-> FALSE, msg |-> << >>]
    ELSE IF \E k \in DOMAIN js : \E i \in FieldByKey(fields, k) :
              ~ConvertScalar(fields[i].kind, js[k]).ok
    THEN [ok |-> FALSE, msg |-> << >>]
    ELSE [ok |-> TRUE,
          msg |-> [nm \in FieldNames(fields) |->
                    LET i == CHOOSE j \in DOMAIN fields : fields[j].name = nm
                        ks == {k \in DOMAIN js : i \in FieldByKey(fields, k)}
                    IN  IF ks = {} THEN DefaultOf(fields[i].kind)
                        ELSE ConvertScalar(fields[i].kind, js[CHOOSE k \in ks : TRUE]).val]]

WireType(kind) == IF kind = "string" THEN 2 ELSE 0
WireEntry(num, wt, v) == [num |-> num, wt |-> wt, n |-> v.n, s |-> v.s]

\* message.SerializeToString(): fields in field-number order, proto3 defaults omitted
RECURSIVE SerializeFrom(_, _, _)
SerializeFrom(fields, msg, i) ==
    IF i > Len(fields) THEN << >>
    ELSE LET f == fields[i]
             rest == SerializeFrom(fields, msg, i + 1)
         IN  IF msg[f.name] = DefaultOf(f.kind) THEN rest
             ELSE <<WireEntry(f.num, WireType(f.kind), msg[f.name])>> \o rest

SerializeToString(fields, msg) == SerializeFrom(fields, msg, 1)

ValidWireTypes == {0, 1, 2, 5}

FromWire(kind, e) ==
    CASE IsIntKind(kind) -> JInt(e.n)
      [] kind = "string" -> JStr(e.s)
      [] kind = "bool" -> JBool(e.n # 0)

\* message.ParseFromString(binary_data): an invalid wire tag raises DecodeError,
\* entries of unknown fields are skipped, the last entry of a field wins
ParseFromString(fields, bytes) ==
    IF \E j \in DOMAIN bytes : bytes[j].wt \notin ValidWireTypes
    THEN [ok |-> FALSE, msg |-> << >>]
    ELSE [ok |-> TRUE,
          msg |-> [nm \in FieldNames(fields) |->
                    LET i == CHOOSE j \in DOMAIN fields : fields[j].name = nm
                        hits == {j \in DOMAIN bytes :
                                    /\ bytes[j].num = fields[i].num
                                    /\ bytes[j].wt = WireType(fields[i].kind)}
                    IN  IF hits = {} THEN DefaultOf(fields[i].kind)
                        ELSE FromWire(fields[i].kind,
                                      bytes[CHOOSE j \in hits : \A h \in hits : h <= j])]]

\* json_format._FieldToJsonObject: 64-bit integers become decimal strings
FieldToJsonObject(kind, v) ==
    IF kind = "int64" THEN JStr(DecimalStr(v.n)) ELSE v

\* json_format.MessageToDict(message, preserving_proto_field_name=True[,
\* including_default_value_fields=True]): keys are the proto field names
MessageToDict(fields, msg, withDefaults) ==
    LET shown == {i \in DOMAIN fields :
                    withDefaults \/ msg[fields[i].name] # DefaultOf(fields[i].kind)}
    IN  [nm \in {fields[i].name : i \in shown} |->
            LET i == CHOOSE j \in DOMAIN fields : fields[j].name = nm
            IN  FieldToJsonObject(fields[i].kind, msg[nm])]


(***************************************************************************)
(* Loaded bindings.  A module object is identified by the schema source it *)
(* was generated from and the thread whose exec_module call built it.      *)
(* partial: executed from an artifact the compiler had not finished        *)
(* writing.  ok: exec_module returned without raising.                     *)
(***************************************************************************)
NoModule == [src |-> "-", partial |-> FALSE, ok |-> FALSE, by |-> "-"]
Module(s, t) == [src |-> s, partial |-> FALSE, ok |-> TRUE, by |-> t]
PartialModule(s, t) == [src |-> s, partial |-> TRUE, ok |-> TRUE, by |-> t]
FailedModule(s, t) == [src |-> s, partial |-> FALSE, ok |-> FALSE, by |-> t]

NoFile == [exists |-> FALSE, src |-> "-", complete |-> FALSE]
PartialFile(s) == [exists |-> TRUE, src |-> s, complete |-> FALSE]
CompleteFile(s) == [exists |-> TRUE, src |-> s, complete |-> TRUE]

\* names the generated module defines besides the schema's own types
SupportNames == {"DESCRIPTOR"}

\* dir(module) with the kind of object bound to each name
AttrKind(m, name) ==
    CASE m = NoModule \/ m.partial \/ ~m.ok -> "absent"
      [] name \in SchemaMessages(m.src) -> "message"
      [] name \in SchemaEnums(m.src) -> "enum"
      [] name \in SupportNames -> "support"
      [] OTHER -> "absent"

\* names a caller may pass as message_name
Names == {"Foo", "Bar", "Color", "DESCRIPTOR", "Missing"}

\* get_message_types, lines 130-137: the Message subclasses of the module.
\* The result is a set here; the code returns it sorted.
MessageTypesOf(m) == {n \in Names : AttrKind(m, n) = "message"}

NoBytes == << >>
NoDict == << >>
Outcome(out, cause, bytes, dict) ==
    [out |-> out, cause |-> cause, bytes |-> bytes, dict |-> dict]

\* hasattr alone decides: any attribute of the module is taken for a message class
HasAttrOnly(m, T) == AttrKind(m, T) # "absent"

\* lines 166-169: hasattr(module, message_name), then message_class()
\* raises TypeError unless the attribute is a message class
HasMessageClass(m, T) == AttrKind(m, T) = "message"

\* json_to_protobuf, lines 160-182: every exception ends in `return None`
JsonToProtobuf(m, T, js) ==
    IF m = NoModule THEN Outcome("none", "LoadError", NoBytes, NoDict)
    ELSE IF ~HasMessageClass(m, T)
    THEN Outcome("none", "UnknownMessageType", NoBytes, NoDict)
    ELSE LET p == ParseDict(MessageFields(m.src, T), js)
         IN  IF ~p.ok THEN Outcome("none", "SchemaMismatch", NoBytes, NoDict)
             ELSE Outcome("bytes", "-",
                          SerializeToString(MessageFields(m.src, T), p.msg), NoDict)

\* protobuf_to_json, lines 201-237: every exception ends in `return None`.
\* withDefaults: whether the installed protobuf accepts
\* including_default_value_fields (lines 220-231 fall back when it does not)
ProtobufToJson(m, T, bytes, withDefaults) ==
    IF m = NoModule THEN Outcome("none", "LoadError", NoBytes, NoDict)
    ELSE IF ~HasMessageClass(m, T)
    THEN Outcome("none", "UnknownMessageType", NoBytes, NoDict)
    ELSE LET p == ParseFromString(MessageFields(m.src, T), bytes)
         IN  IF ~p.ok THEN Outcome("none", "DecodeError", NoBytes, NoDict)
             ELSE Outcome("dict", "-", NoBytes,
                          MessageToDict(MessageFields(m.src, T), p.msg, withDefaults))


(***************************************************************************)
(* The default descriptor pool.  protoc is run with -I<proto_dir>/<env>    *)
(* (lines 88-94), so the generated module registers the file under the     *)
(* name "<env>.proto" and its types under the names the schema gives them: *)
(* neither is qualified by the environment.                                *)
(***************************************************************************)
SchemaSymbols(s) == SchemaMessages(s) \cup SchemaEnums(s)

\* "<env>.proto" is already registered with other content
DuplicateFile(e, s) == pool[e] \notin {"-", s}

\* a type name of s is already registered by the file of another environment
DuplicateSymbol(e, s) ==
    /\ pool[e] # s
    /\ \E e2 \in Envs \ {e} :
          pool[e2] # "-" /\ SchemaSymbols(pool[e2]) \cap SchemaSymbols(s) # {}

\* what exec_module does on a registration conflict depends on the installed
\* protobuf runtime: current runtimes raise TypeError, old pure-Python ones accept
ConflictOutcomes == {"raise", "accept"}

(***************************************************************************)
(* HTTP layer, src/src/api/main.py                                         *)
(***************************************************************************)
\* send_request lines 164-168 and 196-200; upload_proto_file lines 425-427
HttpStatus(out) == IF out \in {"none", "failed"} THEN 500 ELSE 200

\* outcome of a finished request: the operation, the module it worked against,
\* what it returned, which kind of error it hit and the exception behind it
NoRes == [op |-> "-", mod |-> NoModule, out |-> "-", cause |-> "-", why |-> "-"]
Res(o, m, out, cause, why) ==
    [op |-> o, mod |-> m, out |-> out, cause |-> cause, why |-> why]

\* number of requests the threads make
MaxCalls == 3

\* payloads the request threads send
ProbeValues == {[id |-> JInt(7)], [name |-> JStr("a")], [id |-> JStr("a")]}
ProbeBytes == {<<WireEntry(1, 0, JInt(7))>>, <<WireEntry(1, 7, JInt(0))>>}

HandlerInit ==
    /\ protoFile = [e \in Envs |-> "-"]
    /\ pb2File = [e \in Envs |-> NoFile]
    /\ compiledDir = [e \in Envs |-> FALSE]
    /\ loaded = [e \in Envs |-> NoModule]
    /\ sysModules = [e \in Envs |-> NoModule]
    /\ pool = [e \in Envs |-> "-"]
    /\ pc = [t \in Threads |-> "idle"]
    /\ env = [t \in Threads |-> "-"]
    /\ local = [t \in Threads |-> NoModule]
    /\ csrc = [t \in Threads |-> "-"]
    /\ res = [t \in Threads |-> NoRes]
    /\ calls = 0

NoOutcome == Outcome("-", "-", NoBytes, NoDict)

CodecIdle ==
    /\ cpc = "off"
    /\ cMod = NoModule
    /\ cType = "-"
    /\ cVal = NoDict
    /\ cEnc = NoOutcome
    /\ cIn = NoBytes
    /\ cDec = NoOutcome

\* no request is on the response path of send_request
NoBody == [t |-> "-", dict |-> << >>, text |-> "", wire |-> << >>]
NoRaw == [kind |-> "-", dict |-> << >>, text |-> "", wire |-> << >>]

RespIdle ==
    /\ rpc = "off"
    /\ rUse = FALSE
    /\ rType = "-"
    /\ rCT = "-"
    /\ rRaw = NoRaw
    /\ rBody = NoBody
    /\ rData = NoBody
    /\ rOut = 0

\* no json_to_protobuf call is running in parallel
ParIdle ==
    /\ parPc = [t \in Threads |-> "off"]
    /\ parVal = [t \in Threads |-> NoDict]
    /\ parLeft = [t \in Threads |-> {}]
    /\ parMsg = [t \in Threads |-> NoDict]
    /\ parOut = [t \in Threads |-> NoOutcome]

\* no schema text is being rewritten or uploaded
TextIdle ==
    /\ txtIn = << >>
    /\ txt = << >>
    /\ runs = << >>
    /\ upc = "off"
    /\ uploaded = << >>
    /\ stored = << >>
    /\ compiled = << >>

\* the body of a request that was not given to the HTTP handler
NoRequest == [sent |-> FALSE, body |-> NoBody, contentType |-> "-"]

\* no send_request call is on its request path
SendIdle ==
    /\ sendPc = "off"
    /\ payEnv = "-"
    /\ payReqType = "-"
    /\ payRespType = "-"
    /\ payBody = NoBody
    /\ payCT = "-"
    /\ envMod = NoModule
    /\ useProtobuf = FALSE
    /\ codecCalls = << >>
    /\ outbound = NoRequest
    /\ sendOut = 0

\* a config entry that is not there
Absent == [kind |-> "absent", s |-> << >>]

\* validate_config is not called
CfgIdle ==
    /\ cfgPc = "off"
    /\ cfg = [url |-> Absent, method |-> Absent, timeout |-> Absent]
    /\ cfgOut = "-"

\* no environment is stored and no upload request was made
RouteIdle ==
    /\ envProto = [e \in Envs |-> "absent"]
    /\ rtName = [t \in Threads |-> "-"]
    /\ rtFile = [t \in Threads |-> << >>]
    /\ rtOut = [t \in Threads |-> 0]

\* the assertion engine as constructed, line 39
AssertIdle ==
    /\ results = << >>
    /\ returned = << >>
    /\ evaluated = 0
    /\ failures = 0

\* the two files as _ensure_file writes them, lines 11-13 and 26-27
PressIdle ==
    /\ scenarios = << >>
    /\ runList = << >>
    /\ now = 0
    /\ known = {}

\* generate_testcases_stream before its generator is first resumed, lines 628-639
StreamIdle ==
    /\ streamPc = "start"
    /\ genPc = "notstarted"
    /\ progress_queue = << >>
    /\ result_container = "empty"
    /\ error_container = "empty"
    /\ fileExists = FALSE
    /\ emitted = << >>
    /\ reported = << >>

LaterIdle == SendIdle /\ CfgIdle /\ RouteIdle /\ AssertIdle /\ PressIdle /\ StreamIdle

\* a call returns r to its caller; the thread's frame is gone
Return(t, r) ==
    /\ pc' = [pc EXCEPT ![t] = "idle"]
    /\ env' = [env EXCEPT ![t] = "-"]
    /\ res' = [res EXCEPT ![t] = r]
    /\ local' = [local EXCEPT ![t] = NoModule]

\* upload_proto_file (main.py lines 417-421) calls save_proto_file, lines 53-61
SaveProtoFile(t, e, s) ==
    /\ pc[t] = "idle"
    /\ calls < MaxCalls
    /\ calls' = calls + 1
    /\ res' = [res EXCEPT ![t] = NoRes]
    /\ protoFile' = [protoFile EXCEPT ![e] = s]
    /\ env' = [env EXCEPT ![t] = e]
    /\ csrc' = [csrc EXCEPT ![t] = s]
    /\ pc' = [pc EXCEPT ![t] = "compile"]
    /\ UNCHANGED <<pb2File, compiledDir, loaded, sysModules, pool, local, nonHandlerVars>>

\* the upload fails: main.py lines 426-427 answer 500 with the diagnostic
UploadFailed(t, cause) ==
    /\ csrc' = [csrc EXCEPT ![t] = "-"]
    /\ Return(t, Res("upload", NoModule, "failed", cause, "-"))

\* compile_proto, lines 73-76: the schema source is gone
CompileNoSource(t) ==
    /\ pc[t] = "compile"
    /\ protoFile[env[t]] = "-"
    /\ UploadFailed(t, "NotFound")
    /\ UNCHANGED <<protoFile, pb2File, compiledDir, loaded, sysModules, pool, calls, nonHandlerVars>>

\* compile_proto, lines 73-96: output directory made, compiler process started
CompileBegin(t) ==
    /\ pc[t] = "compile"
    /\ protoFile[env[t]] # "-"
    /\ compiledDir' = [compiledDir EXCEPT ![env[t]] = TRUE]
    /\ pc' = [pc EXCEPT ![t] = "protoc"]
    /\ UNCHANGED <<protoFile, pb2File, loaded, sysModules, pool, env, local, csrc, res, calls, nonHandlerVars>>

\* a failing compile that drops the cache entry on its way out
ProtocFailEvicts(t) ==
    /\ pc[t] = "protoc"
    /\ protoFile[env[t]] \notin Schemas \/ ~compiledDir[env[t]]
    /\ loaded' = [loaded EXCEPT ![env[t]] = NoModule]
    /\ UploadFailed(t, "CompileError")
    /\ UNCHANGED <<protoFile, pb2File, compiledDir, sysModules, pool, calls, nonHandlerVars>>

\* compile_proto, lines 88-101 and 109-113: the compiler rejects the source
\* (or cannot write its output), subprocess.run raises and (False, diagnostic)
\* is returned
ProtocFail(t) ==
    /\ pc[t] = "protoc"
    /\ protoFile[env[t]] \notin Schemas \/ ~compiledDir[env[t]]
    /\ UploadFailed(t, "CompileError")
    /\ UNCHANGED <<protoFile, pb2File, compiledDir, loaded, sysModules, pool, calls, nonHandlerVars>>

\* the compiler accepts the source as stored now and opens <env>_pb2.py for writing
ProtocWrite(t) ==
    /\ pc[t] = "protoc"
    /\ protoFile[env[t]] \in Schemas
    /\ compiledDir[env[t]]
    /\ pb2File' = [pb2File EXCEPT ![env[t]] = PartialFile(protoFile[env[t]])]
    /\ csrc' = [csrc EXCEPT ![t] = protoFile[env[t]]]
    /\ pc' = [pc EXCEPT ![t] = "writing"]
    /\ UNCHANGED <<protoFile, compiledDir, loaded, sysModules, pool, env, local, res, calls, nonHandlerVars>>

\* the compiler process ends with status 0; subprocess.run returns (lines 96-101).
\* A file unlinked meanwhile stays unlinked; a file another compiler still
\* writes stays incomplete.
ProtocFinish(t) ==
    /\ pc[t] = "writing"
    /\ pb2File' = [pb2File EXCEPT ![env[t]] =
          IF ~pb2File[env[t]].exists THEN NoFile
          ELSE IF \E u \in Threads \ {t} : pc[u] = "writing" /\ env[u] = env[t]
          THEN PartialFile(csrc[t])
          ELSE CompleteFile(csrc[t])]
    /\ pc' = [pc EXCEPT ![t] = "evict"]
    /\ UNCHANGED <<protoFile, compiledDir, loaded, sysModules, pool, env, local, csrc, res, calls, nonHandlerVars>>

\* compile_proto, lines 103-107: cache entry dropped, (True, message) returned;
\* upload_proto_file goes on to get_message_types (main.py line 430)
CompileEvict(t) ==
    /\ pc[t] = "evict"
    /\ loaded' = [loaded EXCEPT ![env[t]] = NoModule]
    /\ pc' = [pc EXCEPT ![t] = "check"]
    /\ UNCHANGED <<protoFile, pb2File, compiledDir, sysModules, pool, env, local, csrc, res, calls, nonHandlerVars>>

\* a thread inside upload_proto_file
Uploading(t) == csrc[t] # "-"

LoadingOps == {"list", "encode", "decode"}

\* _load_proto_module, lines 250-251: the cache is consulted first
CacheLookup(t, e) ==
    IF loaded[e] # NoModule
    THEN /\ local' = [local EXCEPT ![t] = loaded[e]]
         /\ pc' = [pc EXCEPT ![t] = "use"]
    ELSE /\ local' = [local EXCEPT ![t] = NoModule]
         /\ pc' = [pc EXCEPT ![t] = "exec"]

\* get_message_types / json_to_protobuf / protobuf_to_json, called from
\* send_request and the message-list routes, all begin with _load_proto_module.
\* Which of the three the thread runs matters only once the load has returned.
Call(t, e) ==
    /\ pc[t] = "idle"
    /\ calls < MaxCalls
    /\ calls' = calls + 1
    /\ res' = [res EXCEPT ![t] = NoRes]
    /\ env' = [env EXCEPT ![t] = e]
    /\ CacheLookup(t, e)
    /\ UNCHANGED <<protoFile, pb2File, compiledDir, loaded, sysModules, pool, csrc, nonHandlerVars>>

\* get_message_types called by upload_proto_file after the compile
LoadCheck(t) ==
    /\ pc[t] = "check"
    /\ CacheLookup(t, env[t])
    /\ UNCHANGED <<protoFile, pb2File, compiledDir, loaded, sysModules, pool, env, csrc, res, calls, nonHandlerVars>>

\* callers that let the missing binding escape as an error from get_message_types
LoadFailedRaises(t, why) ==
    /\ csrc' = [csrc EXCEPT ![t] = "-"]
    /\ IF Uploading(t)
       THEN Return(t, Res("upload", NoModule, "compiled", "LoadError", why))
       ELSE \E o \in LoadingOps :
               Return(t, Res(o, NoModule,
                             IF o = "list" THEN "error" ELSE "none", "LoadError", why))

\* what the callers return when _load_proto_module returned None:
\* [] (lines 127-128), None (lines 162-163 with 180-182, 203-204 with 235-237);
\* upload_proto_file answers with the empty type list
LoadFailed(t, why) ==
    /\ csrc' = [csrc EXCEPT ![t] = "-"]
    /\ IF Uploading(t)
       THEN Return(t, Res("upload", NoModule, "compiled", "LoadError", why))
       ELSE \E o \in LoadingOps :
               Return(t, Res(o, NoModule,
                             IF o = "list" THEN "list" ELSE "none", "LoadError", why))

\* _load_proto_module, lines 255-259: no compiled artifact
LoadMissing(t) ==
    /\ pc[t] = "exec"
    /\ ~pb2File[env[t]].exists
    /\ LoadFailed(t, "missing")
    /\ UNCHANGED <<protoFile, pb2File, compiledDir, loaded, sysModules, pool, calls, nonHandlerVars>>

Conflict(e) ==
    DuplicateFile(e, pb2File[e].src) \/ DuplicateSymbol(e, pb2File[e].src)

\* whether exec_module of the artifact as it is on disk now can raise:
\* a truncated file, or a registration conflict on a runtime that rejects it
CanRaise(e) ==
    \/ ~pb2File[e].complete
    \/ Conflict(e) /\ "raise" \in ConflictOutcomes

\* the exception exec_module raises
RaisedBy(e) ==
    CASE ~pb2File[e].complete -> "corrupt"
      [] DuplicateFile(e, pb2File[e].src) -> "duplicate file"
      [] OTHER -> "duplicate symbol"

\* whether exec_module of the artifact as it is on disk now can return
CanReturn(e) ==
    \/ ~pb2File[e].complete
    \/ ~Conflict(e)
    \/ "accept" \in ConflictOutcomes

\* a failing load that leaves the module object it created in the cache
LoadRaisePoisons(t) ==
    /\ pc[t] = "exec"
    /\ pb2File[env[t]].exists
    /\ CanRaise(env[t])
    /\ sysModules' = [sysModules EXCEPT ![env[t]] = FailedModule(pb2File[env[t]].src, t)]
    /\ loaded' = [loaded EXCEPT ![env[t]] = FailedModule(pb2File[env[t]].src, t)]
    /\ LoadFailed(t, RaisedBy(env[t]))
    /\ UNCHANGED <<protoFile, pb2File, compiledDir, pool, calls, nonHandlerVars>>

\* _load_proto_module, lines 261-270 and 277-279: the module object is put into
\* sys.modules, exec_module raises, the exception is caught and None returned
LoadRaise(t) ==
    /\ pc[t] = "exec"
    /\ pb2File[env[t]].exists
    /\ CanRaise(env[t])
    /\ sysModules' = [sysModules EXCEPT ![env[t]] = FailedModule(pb2File[env[t]].src, t)]
    /\ LoadFailed(t, RaisedBy(env[t]))
    /\ UNCHANGED <<protoFile, pb2File, compiledDir, loaded, pool, calls, nonHandlerVars>>

\* _load_proto_module, lines 261-270: exec_module returns; the module holds what
\* the artifact held when it was read
LoadExec(t) ==
    /\ pc[t] = "exec"
    /\ pb2File[env[t]].exists
    /\ CanReturn(env[t])
    /\ LET f == pb2File[env[t]]
           m == IF f.complete THEN Module(f.src, t) ELSE PartialModule(f.src, t)
       IN  /\ local' = [local EXCEPT ![t] = m]
           /\ sysModules' = [sysModules EXCEPT ![env[t]] = m]
           /\ pool' = [pool EXCEPT ![env[t]] = IF f.complete THEN f.src ELSE @]
    /\ pc' = [pc EXCEPT ![t] = "store"]
    /\ UNCHANGED <<protoFile, pb2File, compiledDir, loaded, env, csrc, res, calls, nonHandlerVars>>

\* _load_proto_module, lines 272-275
LoadStore(t) ==
    /\ pc[t] = "store"
    /\ loaded' = [loaded EXCEPT ![env[t]] = local[t]]
    /\ pc' = [pc EXCEPT ![t] = "use"]
    /\ UNCHANGED <<protoFile, pb2File, compiledDir, sysModules, pool, env, local, csrc, res, calls, nonHandlerVars>>

\* get_message_types, lines 130-137; inside upload_proto_file the list is the
\* answer of the upload (main.py lines 432-438)
ListTypes(t) ==
    /\ pc[t] = "use"
    /\ csrc' = [csrc EXCEPT ![t] = "-"]
    /\ IF Uploading(t)
       THEN Return(t, Res("upload", local[t], "compiled", "-", "-"))
       ELSE Return(t, Res("list", local[t], "list", "-", "-"))
    /\ UNCHANGED <<protoFile, pb2File, compiledDir, loaded, sysModules, pool, calls, nonHandlerVars>>

\* json_to_protobuf, lines 165-182
Encode(t) ==
    /\ pc[t] = "use"
    /\ ~Uploading(t)
    /\ \E T \in Names, js \in ProbeValues :
          LET o == JsonToProtobuf(local[t], T, js)
          IN  Return(t, Res("encode", local[t], o.out, o.cause, "-"))
    /\ UNCHANGED <<protoFile, pb2File, compiledDir, loaded, sysModules, pool, csrc, calls, nonHandlerVars>>

\* a decode that drops the cache entry of its environment when it fails
DecodeFailureEvicts(t) ==
    /\ pc[t] = "use"
    /\ ~Uploading(t)
    /\ \E T \in Names, b \in ProbeBytes, d \in BOOLEAN :
          LET o == ProtobufToJson(local[t], T, b, d)
          IN  /\ Return(t, Res("decode", local[t], o.out, o.cause, "-"))
              /\ loaded' = IF o.out = "none"
                            THEN [loaded EXCEPT ![env[t]] = NoModule]
                            ELSE loaded
    /\ UNCHANGED <<protoFile, pb2File, compiledDir, sysModules, pool, csrc, calls, nonHandlerVars>>

\* protobuf_to_json, lines 206-237
Decode(t) ==
    /\ pc[t] = "use"
    /\ ~Uploading(t)
    /\ \E T \in Names, b \in ProbeBytes, d \in BOOLEAN :
          LET o == ProtobufToJson(local[t], T, b, d)
          IN  Return(t, Res("decode", local[t], o.out, o.cause, "-"))
    /\ UNCHANGED <<protoFile, pb2File, compiledDir, loaded, sysModules, pool, csrc, calls, nonHandlerVars>>

\* delete_environment (main.py line 384) calls delete_proto_files; lines 292-295
DeleteProtoDir(t, e) ==
    /\ pc[t] = "idle"
    /\ calls < MaxCalls
    /\ calls' = calls + 1
    /\ res' = [res EXCEPT ![t] = NoRes]
    /\ protoFile' = [protoFile EXCEPT ![e] = "-"]
    /\ env' = [env EXCEPT ![t] = e]
    /\ pc' = [pc EXCEPT ![t] = "rmcompiled"]
    /\ UNCHANGED <<pb2File, compiledDir, loaded, sysModules, pool, local, csrc, nonHandlerVars>>

\* delete_proto_files, lines 297-300
DeleteCompiledDir(t) ==
    /\ pc[t] = "rmcompiled"
    /\ pb2File' = [pb2File EXCEPT ![env[t]] = NoFile]
    /\ compiledDir' = [compiledDir EXCEPT ![env[t]] = FALSE]
    /\ pc' = [pc EXCEPT ![t] = "rmcache"]
    /\ UNCHANGED <<protoFile, loaded, sysModules, pool, env, local, csrc, res, calls, nonHandlerVars>>

\* delete_proto_files, lines 302-306
DeleteEvict(t) ==
    /\ pc[t] = "rmcache"
    /\ loaded' = [loaded EXCEPT ![env[t]] = NoModule]
    /\ Return(t, Res("delete", NoModule, "deleted", "-", "-"))
    /\ UNCHANGED <<protoFile, pb2File, compiledDir, sysModules, pool, csrc, calls, nonHandlerVars>>

Init == HandlerInit /\ CodecIdle /\ RespIdle /\ ParIdle /\ TextIdle /\ LaterIdle

Next ==
    \E t \in Threads :
        \/ \E e \in Envs, s \in Sources : SaveProtoFile(t, e, s)
        \/ CompileNoSource(t)
        \/ CompileBegin(t)
        \/ ProtocFail(t)
        \/ ProtocWrite(t)
        \/ ProtocFinish(t)
        \/ CompileEvict(t)
        \/ \E e \in Envs : Call(t, e)
        \/ LoadCheck(t)
        \/ LoadMissing(t)
        \/ LoadRaise(t)
        \/ LoadExec(t)
        \/ LoadStore(t)
        \/ ListTypes(t)
        \/ Encode(t)
        \/ Decode(t)
        \/ \E e \in Envs : DeleteProtoDir(t, e)
        \/ DeleteCompiledDir(t)
        \/ DeleteEvict(t)

Spec == Init /\ [][Next]_vars


(***************************************************************************)
(* The handler with a compiler that may not terminate.  subprocess.run at  *)
(* lines 96-101 is called without a timeout: it waits in communicate()     *)
(* until the child process exits.                                          *)
(***************************************************************************)
\* compile_proto, lines 96-101: the compiler process never exits; the thread
\* stays inside subprocess.run
ProtocNeverExits(t) ==
    /\ pc[t] = "protoc"
    /\ pc' = [pc EXCEPT ![t] = "blocked"]
    /\ UNCHANGED <<protoFile, pb2File, compiledDir, loaded, sysModules, pool, env, local, csrc, res, calls, nonHandlerVars>>

NextTimeout == Next \/ \E t \in Threads : ProtocNeverExits(t)

SpecTimeout == Init /\ [][NextTimeout]_vars

(***************************************************************************)
(* The handler with a delete_proto_files that fails part-way: one of the   *)
(* two shutil.rmtree calls raises (a file in use, a permission, a          *)
(* directory another thread is removing), the except clause of lines       *)
(* 308-310 catches it and False is returned.                               *)
(***************************************************************************)
\* lines 293-295: rmtree of the source directory raises; the source file is
\* gone already or not
DeleteProtoDirFails(t, e) ==
    /\ pc[t] = "idle"
    /\ calls < MaxCalls
    /\ protoFile[e] # "-"
    /\ calls' = calls + 1
    /\ res' = [res EXCEPT ![t] = NoRes]
    /\ protoFile' \in {protoFile, [protoFile EXCEPT ![e] = "-"]}
    /\ env' = [env EXCEPT ![t] = e]
    /\ pc' = [pc EXCEPT ![t] = "rmfailed"]
    /\ UNCHANGED <<pb2File, compiledDir, loaded, sysModules, pool, local, csrc, nonHandlerVars>>

\* lines 298-300: rmtree of the output directory raises; the artifact is
\* gone already or not, the directory is still there
DeleteCompiledDirFails(t) ==
    /\ pc[t] = "rmcompiled"
    /\ compiledDir[env[t]]
    /\ pb2File' \in {pb2File, [pb2File EXCEPT ![env[t]] = NoFile]}
    /\ pc' = [pc EXCEPT ![t] = "rmfailed"]
    /\ UNCHANGED <<protoFile, compiledDir, loaded, sysModules, pool, env, local, csrc, res, calls, nonHandlerVars>>

\* lines 308-310: return False; lines 303-304 were not reached
DeleteReturnFalse(t) ==
    /\ pc[t] = "rmfailed"
    /\ Return(t, Res("delete", NoModule, "failed", "-", "-"))
    /\ UNCHANGED <<protoFile, pb2File, compiledDir, loaded, sysModules, pool, csrc, calls, nonHandlerVars>>

NextDeleteFails ==
    \/ Next
    \/ \E t \in Threads :
          \/ \E e \in Envs : DeleteProtoDirFails(t, e)
          \/ DeleteCompiledDirFails(t)
          \/ DeleteReturnFalse(t)

SpecDeleteFails == Init /\ [][NextDeleteFails]_vars

(***************************************************************************)
(* The upload route, main.py lines 395-443: the checks of lines 402-415    *)
(* in front of the handler's save, compile and load, and the route that    *)
(* stores an environment.                                                  *)
(***************************************************************************)
ProtoSuffix == <<".", "p", "r", "o", "t", "o">>

\* str.endswith
EndsWith(s, suffix) ==
    /\ Len(s) >= Len(suffix)
    /\ SubSeq(s, Len(s) - Len(suffix) + 1, Len(s)) = suffix

\* file names of uploads
FileNames ==
    { <<"a">> \o ProtoSuffix, <<"a", ".", "t", "x", "t">>, <<"p", "r", "o", "t", "o">>,
      ProtoSuffix \o <<".", "b", "a", "k">> }

\* every check passes for a file name that holds a dot
UploadStatusAnyFile(proto, filename) ==
    IF proto = "absent" THEN 404
    ELSE IF (IF proto = "-" THEN "json" ELSE proto) # "protobuf" THEN 400
    ELSE IF \A i \in DOMAIN filename : filename[i] # "." THEN 400
    ELSE 0

\* lines 402-415: the status of the HTTPException the checks raise, 0 if none;
\* proto is what load_environment gave: "absent" for None, "-" for an
\* environment without a protocol entry
UploadStatus(proto, filename) ==
    IF proto = "absent" THEN 404
    ELSE IF (IF proto = "-" THEN "json" ELSE proto) # "protobuf" THEN 400
    ELSE IF ~EndsWith(filename, ProtoSuffix) THEN 400
    ELSE 0

InitRoute ==
    /\ HandlerInit
    /\ CodecIdle
    /\ RespIdle
    /\ ParIdle
    /\ TextIdle
    /\ SendIdle
    /\ CfgIdle
    /\ AssertIdle
    /\ PressIdle
    /\ StreamIdle
    /\ envProto \in [Envs -> {"absent", "-"}]
    /\ rtName = [t \in Threads |-> "-"]
    /\ rtFile = [t \in Threads |-> << >>]
    /\ rtOut = [t \in Threads |-> 0]

\* save_environment, main.py lines 352-368: protocol is environment.protocol or "json"
SaveEnvironment(e, p) ==
    /\ envProto[e] # p
    /\ envProto' = [envProto EXCEPT ![e] = p]
    /\ UNCHANGED <<rtName, rtFile, rtOut, handlerVars, nonRouteVars>>

\* upload_proto_file, main.py lines 400-421: the checks, then file.read() and
\* save_proto_file (handler lines 53-61)
UploadRoute(t, e, f, s) ==
    /\ pc[t] = "idle"
    /\ calls < MaxCalls
    /\ calls' = calls + 1
    /\ res' = [res EXCEPT ![t] = NoRes]
    /\ rtName' = [rtName EXCEPT ![t] = e]
    /\ rtFile' = [rtFile EXCEPT ![t] = f]
    /\ rtOut' = [rtOut EXCEPT ![t] = UploadStatus(envProto[e], f)]
    /\ IF UploadStatus(envProto[e], f) # 0
       THEN UNCHANGED <<protoFile, env, csrc, pc>>
       ELSE /\ protoFile' = [protoFile EXCEPT ![e] = s]
            /\ env' = [env EXCEPT ![t] = e]
            /\ csrc' = [csrc EXCEPT ![t] = s]
            /\ pc' = [pc EXCEPT ![t] = "compile"]
    /\ UNCHANGED <<pb2File, compiledDir, loaded, sysModules, pool, local, envProto, nonRouteVars>>

\* the requests are made one at a time
RouteThreads == {"t1"}

RouteNext ==
    \/ \E e \in Envs, p \in {"json", "protobuf"} : SaveEnvironment(e, p)
    \/ \E t \in RouteThreads :
          \/ \E e \in Envs, f \in FileNames, s \in Sources : UploadRoute(t, e, f, s)
          \/ CompileBegin(t)
          \/ ProtocFail(t)
          \/ ProtocWrite(t)
          \/ ProtocFinish(t)
          \/ CompileEvict(t)
          \/ LoadCheck(t)
          \/ LoadRaise(t)
          \/ LoadExec(t)
          \/ LoadStore(t)
          \/ ListTypes(t)

SpecRoute == InitRoute /\ [][RouteNext]_vars

(***************************************************************************)
(* AssertionEngine, assertion.py lines 27-143.  An assertion is given by   *)
(* what eval makes of it in its context: the value True, False, another    *)
(* value (1, None), or an exception (KeyError, any other Exception).       *)
(***************************************************************************)
MaxResults == 3
MaxBatch == 2

EvalOutcomes == {"True", "False", "1", "None", "KeyError", "NameError"}

\* lines 77-102: the AssertionResult evaluate builds
AssertionResult(a) ==
    [assertion |-> a,
     passed |-> a = "True",
     message |-> CASE a = "True" -> "Assertion passed"
                   [] a = "KeyError" -> "KeyError"
                   [] a = "NameError" -> "Error"
                   [] OTHER -> "Assertion failed"]

RECURSIVE EvaluateUntilRaise(_)
\* a loop that an exception from an assertion ends
EvaluateUntilRaise(assertions) ==
    IF assertions = << >> THEN << >>
    ELSE IF Head(assertions) \in {"KeyError", "NameError"} THEN << >>
    ELSE <<AssertionResult(Head(assertions))>> \o EvaluateUntilRaise(Tail(assertions))

RECURSIVE EvaluateEach(_)
\* lines 118-122: evaluate for every assertion of the list, in order
EvaluateEach(assertions) ==
    IF assertions = << >> THEN << >>
    ELSE <<AssertionResult(Head(assertions))>> \o EvaluateEach(Tail(assertions))

RECURSIVE CountNotTrue(_)
CountNotTrue(assertions) ==
    IF assertions = << >> THEN 0
    ELSE (IF Head(assertions) = "True" THEN 0 ELSE 1) + CountNotTrue(Tail(assertions))

\* get_summary, lines 128-139 (without pass_rate)
GetSummary ==
    LET total == Len(results)
        passed == Cardinality({i \in DOMAIN results : results[i].passed})
    IN  [total |-> total, passed |-> passed, failed |-> total - passed]

\* all_passed, lines 124-126
AllPassed == \A i \in DOMAIN results : results[i].passed

InitAssert ==
    /\ HandlerInit
    /\ CodecIdle
    /\ RespIdle
    /\ ParIdle
    /\ TextIdle
    /\ SendIdle
    /\ CfgIdle
    /\ RouteIdle
    /\ PressIdle
    /\ StreamIdle
    /\ results = << >>
    /\ returned = << >>
    /\ evaluated = 0
    /\ failures = 0

\* evaluate, lines 41-105
Evaluate(a) ==
    /\ Len(results) < MaxResults
    /\ results' = Append(results, AssertionResult(a))
    /\ returned' = <<AssertionResult(a)>>
    /\ evaluated' = evaluated + 1
    /\ failures' = failures + CountNotTrue(<<a>>)
    /\ UNCHANGED nonAssertVars

\* evaluate_all, lines 107-122
EvaluateAll(assertions) ==
    /\ Len(results) + Len(assertions) <= MaxResults
    /\ results' = results \o EvaluateEach(assertions)
    /\ returned' = EvaluateEach(assertions)
    /\ evaluated' = evaluated + Len(assertions)
    /\ failures' = failures + CountNotTrue(assertions)
    /\ UNCHANGED nonAssertVars

\* reset, lines 141-143
Reset ==
    /\ results' = << >>
    /\ returned' = returned
    /\ evaluated' = 0
    /\ failures' = 0
    /\ UNCHANGED nonAssertVars

AssertNext ==
    \/ \E a \in EvalOutcomes : Evaluate(a)
    \/ \E n \in 0..MaxBatch : \E assertions \in [1..n -> EvalOutcomes] : EvaluateAll(assertions)
    \/ Reset

SpecAssert == InitAssert /\ [][AssertNext]_vars

(***************************************************************************)
(* PressureStorage, pressure_storage.py lines 16-185: scenarios.json and   *)
(* runs.json hold one list each; every call reads a list, changes it and   *)
(* writes it back.  Of a record the fields kept are the ones the calls     *)
(* read or the run lifecycle is about.                                     *)
(***************************************************************************)
MaxClock == 5
MaxScenarios == 2

ScenarioIds == {"s1", "s2"}

\* lines 59-75: the record create_scenario appends
NewScenario(id) == [id |-> id, status |-> "idle"]

\* lines 140-154: the record create_run appends; the id is the time of the call
NewRun(id, scenarioId) ==
    [id |-> id, scenario_id |-> scenarioId, status |-> "running", completed_at |-> 0]

\* lines 168-173: the first run with this id, 0 if there is none
FindRun(list, runId) ==
    IF \E i \in DOMAIN list : list[i].id = runId
    THEN CHOOSE i \in DOMAIN list :
             /\ list[i].id = runId
             /\ \A j \in DOMAIN list : list[j].id = runId => i <= j
    ELSE 0

\* _set_scenario_status, lines 104-112: the first scenario with this id
SetScenarioStatus(list, scenarioId, status) ==
    [i \in DOMAIN list |->
        IF /\ list[i].id = scenarioId
           /\ \A j \in DOMAIN list : list[j].id = scenarioId => i <= j
        THEN [list[i] EXCEPT !.status = status]
        ELSE list[i]]

InitPressure ==
    /\ HandlerInit
    /\ CodecIdle
    /\ RespIdle
    /\ ParIdle
    /\ TextIdle
    /\ SendIdle
    /\ CfgIdle
    /\ RouteIdle
    /\ AssertIdle
    /\ StreamIdle
    /\ scenarios = << >>
    /\ runList = << >>
    /\ now = 0
    /\ known = {}

\* create_scenario, lines 59-75
CreateScenario(id) ==
    /\ now < MaxClock
    /\ Len(scenarios) < MaxScenarios
    /\ now' = now + 1
    /\ scenarios' = Append(scenarios, NewScenario(id))
    /\ known' = known \cup {id}
    /\ UNCHANGED runList
    /\ UNCHANGED nonPressVars

\* create_run, lines 128-158, for a scenario the caller got from the storage
CreateRun(scenarioId) ==
    /\ now < MaxClock
    /\ scenarioId \in known
    /\ now' = now + 1
    /\ runList' = Append(runList, NewRun(now', scenarioId))
    /\ scenarios' = SetScenarioStatus(scenarios, scenarioId, "running")
    /\ UNCHANGED known
    /\ UNCHANGED nonPressVars

\* complete_run, lines 160-185
CompleteRun(runId, success) ==
    /\ now < MaxClock
    /\ now' = now + 1
    /\ LET i == FindRun(runList, runId)
           status == IF success THEN "success" ELSE "failed"
       IN  IF i = 0
           THEN UNCHANGED <<runList, scenarios>>
           ELSE /\ runList' = [runList EXCEPT ![i].status = status, ![i].completed_at = now']
                /\ scenarios' = SetScenarioStatus(scenarios, runList[i].scenario_id, status)
    /\ UNCHANGED known
    /\ UNCHANGED nonPressVars

\* delete_scenario, lines 98-102
DeleteScenario(scenarioId) ==
    /\ now < MaxClock
    /\ now' = now + 1
    /\ LET KeepScenario(item) == item.id # scenarioId
           KeepRun(run) == run.scenario_id # scenarioId
       IN  /\ scenarios' = SelectSeq(scenarios, KeepScenario)
           /\ runList' = SelectSeq(runList, KeepRun)
    /\ UNCHANGED known
    /\ UNCHANGED nonPressVars

PressureNext ==
    \/ \E id \in ScenarioIds : CreateScenario(id)
    \/ \E id \in ScenarioIds : CreateRun(id)
    \/ \E r \in 1..MaxClock : \E success \in BOOLEAN : CompleteRun(r, success)
    \/ \E id \in ScenarioIds : DeleteScenario(id)

SpecPressure == InitPressure /\ [][PressureNext]_vars

(***************************************************************************)
(* generate_testcases_stream, main.py lines 628-735.  The response         *)
(* generator saves the upload, starts the generation thread and forwards   *)
(* what the thread puts on progress_queue until it reads None; then it     *)
(* joins the thread, yields the final event and removes the file.  The     *)
(* generator is resumed by the response as long as it has events.          *)
(***************************************************************************)
MaxProgress == 2
MaxHeartbeats == 2

NoPercent == -1
Percents == {0, 10, 100}

\* lines 633-637: what progress_callback puts on the queue
ProgressEvent(percent) == [type |-> "progress", percent |-> percent]
\* line 668: the end signal None
QueueNone == [type |-> "None", percent |-> NoPercent]
\* lines 689, 699, 709, 728, 731
Event(type) == [type |-> type, percent |-> NoPercent]

RECURSIVE ProgressOf(_)
\* the progress events of a sequence of events, in order
ProgressOf(events) ==
    IF events = << >> THEN << >>
    ELSE IF Head(events).type = "progress"
         THEN <<Head(events)>> \o ProgressOf(Tail(events))
         ELSE ProgressOf(Tail(events))

HeartbeatsOf(events) == Cardinality({i \in DOMAIN events : events[i].type = "heartbeat"})

InitStream ==
    /\ HandlerInit
    /\ CodecIdle
    /\ RespIdle
    /\ ParIdle
    /\ TextIdle
    /\ SendIdle
    /\ CfgIdle
    /\ RouteIdle
    /\ AssertIdle
    /\ PressIdle
    /\ streamPc = "start"
    /\ genPc = "notstarted"
    /\ progress_queue = << >>
    /\ result_container = "empty"
    /\ error_container = "empty"
    /\ fileExists = FALSE
    /\ emitted = << >>
    /\ reported = << >>

\* lines 643-672: the upload is saved and the generation thread started
StreamStart ==
    /\ streamPc = "start"
    /\ fileExists' = TRUE
    /\ genPc' = "running"
    /\ streamPc' = "loop"
    /\ UNCHANGED <<progress_queue, result_container, error_container, emitted, reported>>
    /\ UNCHANGED nonStreamVars

\* lines 643-644 or 671-672 raise (the file cannot be written, no thread can
\* be started): line 731 yields the error event
StreamStartFails(written) ==
    /\ streamPc = "start"
    /\ fileExists' = written
    /\ emitted' = Append(emitted, Event("error"))
    /\ streamPc' = "final"
    /\ UNCHANGED <<genPc, progress_queue, result_container, error_container, reported>>
    /\ UNCHANGED nonStreamVars

\* generator.py lines 74-77 through progress_callback, main.py lines 631-637
ReportProgress(percent) ==
    /\ genPc = "running"
    /\ Len(reported) < MaxProgress
    /\ progress_queue' = Append(progress_queue, ProgressEvent(percent))
    /\ reported' = Append(reported, ProgressEvent(percent))
    /\ UNCHANGED <<streamPc, genPc, result_container, error_container, fileExists, emitted>>
    /\ UNCHANGED nonStreamVars

\* a thread that signals its end only when it did not raise
RunGenerationEndsSilentOnError(outcome) ==
    /\ genPc = "running"
    /\ result_container' = IF outcome = "error" THEN result_container ELSE outcome
    /\ error_container' = IF outcome = "error" THEN "error" ELSE error_container
    /\ progress_queue' = IF outcome = "error" THEN progress_queue
                         ELSE Append(progress_queue, QueueNone)
    /\ genPc' = "signalled"
    /\ UNCHANGED <<streamPc, fileExists, emitted, reported>>
    /\ UNCHANGED nonStreamVars

\* lines 663-668: generate returned a result with or without xmind_path, or
\* the thread raised; in each case the finally block puts None
RunGenerationEnds(outcome) ==
    /\ genPc = "running"
    /\ result_container' = IF outcome = "error" THEN result_container ELSE outcome
    /\ error_container' = IF outcome = "error" THEN "error" ELSE error_container
    /\ progress_queue' = Append(progress_queue, QueueNone)
    /\ genPc' = "signalled"
    /\ UNCHANGED <<streamPc, fileExists, emitted, reported>>
    /\ UNCHANGED nonStreamVars

\* run_generation returns and the thread ends
ThreadExit ==
    /\ genPc = "signalled"
    /\ genPc' = "ended"
    /\ UNCHANGED <<streamPc, progress_queue, result_container, error_container,
                   fileExists, emitted, reported>>
    /\ UNCHANGED nonStreamVars

\* lines 678-685: an item is taken from the queue; None ends the loop, a
\* progress item is yielded
StreamGet ==
    /\ streamPc = "loop"
    /\ progress_queue # << >>
    /\ progress_queue' = Tail(progress_queue)
    /\ IF Head(progress_queue) = QueueNone
       THEN /\ streamPc' = "join"
            /\ UNCHANGED emitted
       ELSE /\ emitted' = Append(emitted, Head(progress_queue))
            /\ UNCHANGED streamPc
    /\ UNCHANGED <<genPc, result_container, error_container, fileExists, reported>>
    /\ UNCHANGED nonStreamVars

\* lines 687-689: the queue stayed empty for the timeout
StreamHeartbeat ==
    /\ streamPc = "loop"
    /\ progress_queue = << >>
    /\ HeartbeatsOf(emitted) < MaxHeartbeats
    /\ emitted' = Append(emitted, Event("heartbeat"))
    /\ UNCHANGED <<streamPc, genPc, progress_queue, result_container, error_container,
                   fileExists, reported>>
    /\ UNCHANGED nonStreamVars

\* lines 692-731: join returns once the thread has ended; the final event
\* is error for a stored error, for a result without xmind_path and for an
\* exception while the final data is built, complete otherwise
StreamFinal(raises) ==
    /\ streamPc = "join"
    /\ genPc = "ended"
    /\ emitted' = Append(emitted,
           IF error_container = "error" THEN Event("error")
           ELSE IF result_container # "xmind" THEN Event("error")
           ELSE IF raises THEN Event("error")
           ELSE Event("complete"))
    /\ streamPc' = "final"
    /\ UNCHANGED <<genPc, progress_queue, result_container, error_container,
                   fileExists, reported>>
    /\ UNCHANGED nonStreamVars

\* lines 732-735: the finally block, then the generator is exhausted
StreamCleanup ==
    /\ streamPc = "final"
    /\ fileExists' = FALSE
    /\ streamPc' = "done"
    /\ UNCHANGED <<genPc, progress_queue, result_container, error_container,
                   emitted, reported>>
    /\ UNCHANGED nonStreamVars

StreamNext ==
    \/ StreamStart
    \/ \E written \in BOOLEAN : StreamStartFails(written)
    \/ \E percent \in Percents : ReportProgress(percent)
    \/ \E outcome \in {"xmind", "noxmind", "error"} : RunGenerationEnds(outcome)
    \/ ThreadExit
    \/ StreamGet
    \/ StreamHeartbeat
    \/ \E raises \in BOOLEAN : StreamFinal(raises)
    \/ StreamCleanup

SpecStream == InitStream /\ [][StreamNext]_vars

\* the response resumes the generator until it is exhausted, queue.get
\* returns an item that is there, and a thread that has left run_generation's
\* finally block ends
SpecStreamLive ==
    /\ SpecStream
    /\ WF_vars(ThreadExit)
    /\ WF_vars(StreamGet)
    /\ WF_vars(\E raises \in BOOLEAN : StreamFinal(raises))
    /\ WF_vars(StreamCleanup)

(***************************************************************************)
(* The codec on its own: json_to_protobuf and protobuf_to_json applied to  *)
(* a module, a message name and a payload.                                 *)
(***************************************************************************)
PayloadInts == {0, 7}
PayloadStrs == {"", "a"}

\* JSON values of the Python type a field of this kind holds
ValuesOfKind(kind) ==
    CASE IsIntKind(kind) -> {JInt(n) : n \in PayloadInts}
      [] kind = "string" -> {JStr(s) : s \in PayloadStrs}
      [] kind = "bool" -> {JBool(b) : b \in BOOLEAN}

\* a value conforms to a message type: its keys are declared field names and
\* each value has the Python type of its field
Conforms(fields, js) ==
    \A k \in DOMAIN js :
        \E i \in DOMAIN fields :
            fields[i].name = k /\ js[k] \in ValuesOfKind(fields[i].kind)

ConformingValues(fields) ==
    UNION {
        {js \in [keys -> UNION {ValuesOfKind(fields[i].kind) : i \in DOMAIN fields}] :
            Conforms(fields, js)} :
        keys \in SUBSET FieldNames(fields)}

\* payloads that fit no message type of the schemas as written
OddValues ==
    {[id |-> JStr("a")], [id |-> JStr("7")], [id |-> JBool(TRUE)],
     [extra |-> JInt(7)], [userName |-> JStr("a")],
     [id |-> JInt(7), extra |-> JInt(7)]}

CodecValues ==
    ConformingValues(FooV1) \cup ConformingValues(FooV2)
        \cup ConformingValues(BarV2) \cup OddValues

CodecModules == {NoModule, Module("v1", "t1"), Module("v2", "t1"), PartialModule("v2", "t1")}

CodecInit ==
    /\ cpc = "start"
    /\ cMod \in CodecModules
    /\ cType \in Names
    /\ cVal \in CodecValues
    /\ cEnc = NoOutcome
    /\ cIn = NoBytes
    /\ cDec = NoOutcome

\* json_to_protobuf(environment_name, message_name, json_data)
CodecEncode ==
    /\ cpc = "start"
    /\ cEnc' = JsonToProtobuf(cMod, cType, cVal)
    /\ cpc' = "encoded"
    /\ UNCHANGED <<cMod, cType, cVal, cIn, cDec, nonCodecVars>>

\* protobuf_to_json on the bytes json_to_protobuf returned
CodecDecodeOwn ==
    /\ cpc = "encoded"
    /\ cEnc.out = "bytes"
    /\ cIn' = cEnc.bytes
    /\ \E d \in BOOLEAN : cDec' = ProtobufToJson(cMod, cType, cEnc.bytes, d)
    /\ cpc' = "roundtrip"
    /\ UNCHANGED <<cMod, cType, cVal, cEnc, nonCodecVars>>

\* protobuf_to_json on bytes that came from elsewhere
CodecDecodeOther ==
    /\ cpc = "encoded"
    /\ \E b \in ProbeBytes, d \in BOOLEAN :
          /\ cIn' = b
          /\ cDec' = ProtobufToJson(cMod, cType, b, d)
    /\ cpc' = "decoded"
    /\ UNCHANGED <<cMod, cType, cVal, cEnc, nonCodecVars>>

CodecNext == CodecEncode \/ CodecDecodeOwn \/ CodecDecodeOther

InitCodec == HandlerInit /\ CodecInit /\ RespIdle /\ ParIdle /\ TextIdle /\ LaterIdle

SpecCodec == InitCodec /\ [][CodecNext]_vars



(***************************************************************************)
(* The response path of send_request: HTTPHandler.send_request builds      *)
(* Response.body from the target's answer, main.py turns it into the       *)
(* response_data the client gets.                                          *)
(***************************************************************************)
\* Python values a response body can be
BDict(d) == [t |-> "dict", dict |-> d, text |-> "", wire |-> << >>]
BStr(s) == [t |-> "str", dict |-> << >>, text |-> s, wire |-> << >>]
BBytes(w) == [t |-> "bytes", dict |-> << >>, text |-> "", wire |-> w]

\* what a target can answer: a JSON document, other text, a protobuf message
\* (well-formed or not), or nothing before the timeout
RawJson(d, s) == [kind |-> "json", dict |-> d, text |-> s, wire |-> << >>]
RawText(s) == [kind |-> "text", dict |-> << >>, text |-> s, wire |-> << >>]
RawWire(w) == [kind |-> "wire", dict |-> << >>, text |-> "", wire |-> w]
RawTimeout == [kind |-> "timeout", dict |-> << >>, text |-> "", wire |-> << >>]

RawAnswers ==
    {RawJson([id |-> JInt(7)], "{id: 7}"), RawText("oops"), RawTimeout}
        \cup {RawWire(w) : w \in ProbeBytes}

ContentTypes ==
    {"application/json", "application/json; charset=utf-8", "text/plain",
     "application/xml", "application/x-protobuf", "application/octet-stream", ""}

\* line 120: "application/json" in content_type
IsJsonType(ct) == ct \in {"application/json", "application/json; charset=utf-8"}

\* line 127: "text/" in content_type or "application/xml" in content_type
IsTextType(ct) == ct \in {"text/plain", "application/xml"}

\* len(raw_response.content): tag byte and value byte of each entry
ByteLen(w) == 2 * Len(w)

\* raw_response.text: the content decoded as text
TextOf(raw) ==
    IF raw.kind = "wire" THEN "bytes as text" ELSE raw.text

BinaryPlaceholder(n) == BStr("<Binary data, " \o DecimalStr(n) \o " bytes>")

\* HTTPHandler._parse_response_body, lines 115-131
ParseResponseBody(ct, raw) ==
    IF IsJsonType(ct)
    THEN IF raw.kind = "json" THEN BDict(raw.dict) ELSE BStr(TextOf(raw))
    ELSE IF IsTextType(ct)
    THEN BStr(TextOf(raw))
    ELSE BinaryPlaceholder(ByteLen(raw.wire))

\* the module the response is decoded with
ResponseModule == Module("v1", "t1")

InitResponse ==
    /\ HandlerInit
    /\ CodecIdle
    /\ ParIdle
    /\ TextIdle
    /\ LaterIdle
    /\ rpc = "sending"
    /\ rUse \in BOOLEAN
    /\ rType \in {"Foo", "Missing"}
    /\ rCT \in ContentTypes
    /\ rRaw \in RawAnswers
    /\ rBody = NoBody
    /\ rData = NoBody
    /\ rOut = 0

\* HTTPHandler.send_request, lines 59-93
HttpSendRequest ==
    /\ rpc = "sending"
    /\ rBody' = IF rRaw.kind = "timeout"
                THEN BDict([error |-> JStr("Request timeout")])
                ELSE ParseResponseBody(rCT, rRaw)
    /\ rpc' = "received"
    /\ UNCHANGED <<rUse, rType, rCT, rRaw, rData, rOut, nonRespVars>>

\* send_request in main.py, lines 186-211 and 234-241
SendRequestResponse ==
    /\ rpc = "received"
    /\ rpc' = "done"
    /\ IF rUse /\ rBody.t = "bytes"
       THEN \E d \in BOOLEAN :
               LET o == ProtobufToJson(ResponseModule, rType, rBody.wire, d)
               IN  IF o.out = "none"
                   THEN rData' = NoBody /\ rOut' = 500
                   ELSE rData' = BDict(o.dict) /\ rOut' = 200
       ELSE /\ rData' = IF rBody.t = "bytes"
                        THEN BinaryPlaceholder(ByteLen(rBody.wire))
                        ELSE rBody
            /\ rOut' = 200
    /\ UNCHANGED <<rUse, rType, rCT, rRaw, rBody, nonRespVars>>

ResponseNext == HttpSendRequest \/ SendRequestResponse

SpecResponse == InitResponse /\ [][ResponseNext]_vars


(***************************************************************************)
(* The request path of send_request, main.py lines 126-184: the lookup of  *)
(* the environment, the checks, the encoding and the outbound request.     *)
(* The response path above continues from the outbound request.            *)
(***************************************************************************)
\* Python None and [] as a payload body
BNone == [t |-> "none", dict |-> << >>, text |-> "", wire |-> << >>]
BList == [t |-> "list", dict |-> << >>, text |-> "", wire |-> << >>]

\* environment_storage.load_environment, lines 46-77: the protocol entry of
\* the stored environment ("-" when it has none), "absent" for None
LoadEnvironment(name) ==
    CASE name = "P" -> "protobuf"
      [] name = "J" -> "json"
      [] name = "N" -> "-"
      [] OTHER -> "absent"

\* `not x` for an Optional[str]
Falsy(x) == x \in {"none", ""}

PayloadEnvs == {"none", "", "P", "J", "N", "X"}
PayloadTypes == {"none", "", "Foo", "Missing"}
PayloadBodies ==
    {BNone, BList, BStr("x"), BDict([id |-> JInt(7)]), BDict([extra |-> JInt(7)])}

InitSend ==
    /\ HandlerInit
    /\ CodecIdle
    /\ RespIdle
    /\ ParIdle
    /\ TextIdle
    /\ CfgIdle
    /\ RouteIdle
    /\ AssertIdle
    /\ PressIdle
    /\ StreamIdle
    /\ sendPc = "start"
    /\ payEnv \in PayloadEnvs
    /\ payReqType \in PayloadTypes
    /\ payRespType \in {"none", "", "Foo"}
    /\ payBody \in PayloadBodies
    /\ payCT \in {"-", "application/json"}
    /\ envMod \in {ResponseModule, NoModule}
    /\ useProtobuf = FALSE
    /\ codecCalls = << >>
    /\ outbound = NoRequest
    /\ sendOut = 0

\* any stored environment counts
IsStoredEnv(name) == LoadEnvironment(name) # "absent"

\* line 130: environment and environment.get("protocol") == "protobuf"
IsProtobufEnv(name) == LoadEnvironment(name) = "protobuf"

\* the outcome of the encoding is not looked at
EncodeNeverFailed(o) == FALSE

\* line 164: binary_data is None
EncodeFailed(o) == o.out = "none"

\* lines 126-143
SendLookup ==
    /\ sendPc = "start"
    /\ LET use == ~Falsy(payEnv) /\ IsProtobufEnv(payEnv)
       IN  /\ useProtobuf' = use
           /\ IF use /\ (Falsy(payReqType) \/ Falsy(payRespType))
              THEN sendPc' = "raised" /\ sendOut' = 400
              ELSE sendPc' = "prepare" /\ sendOut' = sendOut
    /\ UNCHANGED <<payEnv, payReqType, payRespType, payBody, payCT, envMod,
                   codecCalls, outbound, respVars, nonSendVars>>

\* lines 146-171
SendEncode ==
    /\ sendPc = "prepare"
    /\ IF ~useProtobuf
       THEN /\ outbound' = [sent |-> FALSE, body |-> payBody, contentType |-> payCT]
            /\ sendPc' = "built"
            /\ UNCHANGED <<codecCalls, sendOut>>
       ELSE IF payBody.t # "dict"
       THEN /\ sendPc' = "raised"
            /\ sendOut' = 400
            /\ UNCHANGED <<codecCalls, outbound>>
       ELSE LET o == JsonToProtobuf(envMod, payReqType, payBody.dict)
            IN  /\ codecCalls' = Append(codecCalls, [op |-> "json_to_protobuf", env |-> payEnv])
                /\ IF EncodeFailed(o)
                   THEN /\ sendPc' = "raised"
                        /\ sendOut' = 500
                        /\ UNCHANGED outbound
                   ELSE /\ outbound' = [sent |-> FALSE, body |-> BBytes(o.bytes),
                                        contentType |-> "application/x-protobuf"]
                        /\ sendPc' = "built"
                        /\ UNCHANGED sendOut
    /\ UNCHANGED <<payEnv, payReqType, payRespType, payBody, payCT, envMod,
                   useProtobuf, respVars, nonSendVars>>

\* lines 174-184: the request goes out, the target answers
SendHttp ==
    /\ sendPc = "built"
    /\ outbound' = [outbound EXCEPT !.sent = TRUE]
    /\ sendPc' = "sent"
    /\ rpc' = "sending"
    /\ rUse' = useProtobuf
    /\ rType' = payRespType
    /\ rCT' \in ContentTypes
    /\ rRaw' \in RawAnswers
    /\ UNCHANGED <<rBody, rData, rOut>>
    /\ UNCHANGED <<payEnv, payReqType, payRespType, payBody, payCT, envMod,
                   useProtobuf, codecCalls, sendOut, nonSendVars>>

SendNext == SendLookup \/ SendEncode \/ SendHttp \/ HttpSendRequest \/ SendRequestResponse

SpecSend == InitSend /\ [][SendNext]_vars


(***************************************************************************)
(* HTTPHandler.validate_config, http_handler.py lines 133-144.  A config   *)
(* is a dict; an entry is absent or holds a str (a sequence of             *)
(* characters), None or an int.                                            *)
(***************************************************************************)
Str(s) == [kind |-> "str", s |-> s]
PyNone == [kind |-> "none", s |-> << >>]
PyInt == [kind |-> "int", s |-> << >>]

LowerCase == <<"a", "b", "c", "d", "e", "f", "g", "h", "i", "j", "k", "l", "m",
               "n", "o", "p", "q", "r", "s", "t", "u", "v", "w", "x", "y", "z">>
UpperCase == <<"A", "B", "C", "D", "E", "F", "G", "H", "I", "J", "K", "L", "M",
               "N", "O", "P", "Q", "R", "S", "T", "U", "V", "W", "X", "Y", "Z">>

\* str.upper(), character by character
Upper(s) ==
    [i \in DOMAIN s |->
        IF \E k \in DOMAIN LowerCase : LowerCase[k] = s[i]
        THEN UpperCase[CHOOSE k \in DOMAIN LowerCase : LowerCase[k] = s[i]]
        ELSE s[i]]

\* line 141: the list of methods
HttpMethods ==
    { <<"G", "E", "T">>, <<"P", "O", "S", "T">>, <<"P", "U", "T">>,
      <<"D", "E", "L", "E", "T", "E">>, <<"P", "A", "T", "C", "H">>,
      <<"H", "E", "A", "D">>, <<"O", "P", "T", "I", "O", "N", "S">> }

\* line 140: config.get("method", "GET")
MethodOf(config) ==
    IF config.method.kind = "absent" THEN Str(<<"G", "E", "T">>) ELSE config.method

\* line 140: .upper() is looked up on the value; only a str has it
HasUpper(v) == v.kind = "str"

\* lines 136-144: "True", "False", or the exception that leaves the call
ValidateConfigResult(config) ==
    IF config.url.kind = "absent" THEN "False"
    ELSE IF ~HasUpper(MethodOf(config)) THEN "AttributeError"
    ELSE IF Upper(MethodOf(config).s) \notin HttpMethods THEN "False"
    ELSE "True"

\* the method entries tried
MethodEntries ==
    {Absent, PyNone, PyInt} \cup
    {Str(s) : s \in HttpMethods \cup
        { <<"g", "e", "t">>, <<"P", "o", "s", "t">>, <<"o", "p", "t", "i", "o", "n", "s">>,
          <<"I", "N", "V", "A", "L", "I", "D">>, <<"T", "R", "A", "C", "E">>,
          <<"G", "E", "T", " ">>, << >> }}

UrlEntries == {Absent, PyNone, Str(<< >>), Str(<<"h", "t", "t", "p", "s", ":", "/", "/", "x">>)}

InitValidate ==
    /\ HandlerInit
    /\ CodecIdle
    /\ RespIdle
    /\ ParIdle
    /\ TextIdle
    /\ SendIdle
    /\ RouteIdle
    /\ AssertIdle
    /\ PressIdle
    /\ StreamIdle
    /\ cfgPc = "start"
    /\ cfg \in [url : UrlEntries, method : MethodEntries, timeout : {Absent, PyInt}]
    /\ cfgOut = "-"

ValidateConfig ==
    /\ cfgPc = "start"
    /\ cfgOut' = ValidateConfigResult(cfg)
    /\ cfgPc' = "done"
    /\ UNCHANGED <<cfg, nonCfgVars>>

SpecValidate == InitValidate /\ [][ValidateConfig]_vars


(***************************************************************************)
(* Parallel json_to_protobuf calls against one cached binding and one      *)
(* message type, lines 160-178.  ParseDict fills the message field by      *)
(* field, so the calls interleave between any two assignments.             *)
(***************************************************************************)
\* the cached binding and the message type all calls use
ParModule == Module("v2", "t1")
ParType == "Bar"
ParFields == MessageFields(ParModule.src, ParType)

ParValues ==
    {NoDict, [id |-> JInt(7)], [id |-> JInt(7), big |-> JInt(7)],
     [user_name |-> JStr("a"), flag |-> JBool(TRUE)], [userName |-> JStr("a")]}

\* message_class(), line 172: a message with every field at its default
NewMessage(fields) ==
    [nm \in FieldNames(fields) |->
        DefaultOf(fields[CHOOSE j \in DOMAIN fields : fields[j].name = nm].kind)]

\* all calls work on one message object
OneMessage(t) == "t1"

\* line 172: the message object a call works on is the one it created itself
MessageOf(t) == t

InitParallel ==
    /\ HandlerInit
    /\ CodecIdle
    /\ RespIdle
    /\ TextIdle
    /\ LaterIdle
    /\ parPc = [t \in Threads |-> "idle"]
    /\ parVal = [t \in Threads |-> NoDict]
    /\ parLeft = [t \in Threads |-> {}]
    /\ parMsg = [t \in Threads |-> NoDict]
    /\ parOut = [t \in Threads |-> NoOutcome]

\* lines 161-172: the cached module, the class, a new message
ParNewMessage(t) ==
    /\ parPc[t] = "idle"
    /\ \E js \in ParValues :
          /\ parVal' = [parVal EXCEPT ![t] = js]
          /\ parLeft' = [parLeft EXCEPT ![t] = DOMAIN js]
    /\ parMsg' = [parMsg EXCEPT ![MessageOf(t)] = NewMessage(ParFields)]
    /\ parPc' = [parPc EXCEPT ![t] = "parse"]
    /\ UNCHANGED <<parOut, nonParVars>>

\* line 175, json_format.ParseDict: one key of json_data is converted and
\* assigned; a key or value that does not fit ends the call with None
ParSetField(t) ==
    /\ parPc[t] = "parse"
    /\ \E k \in parLeft[t] :
          LET hit == FieldByKey(ParFields, k)
              i == CHOOSE j \in hit : TRUE
              c == ConvertScalar(ParFields[i].kind, parVal[t][k])
          IN  IF hit = {} \/ ~c.ok
              THEN /\ parOut' = [parOut EXCEPT ![t] =
                                    Outcome("none", "SchemaMismatch", NoBytes, NoDict)]
                   /\ parPc' = [parPc EXCEPT ![t] = "done"]
                   /\ UNCHANGED <<parMsg, parLeft>>
              ELSE /\ parMsg' = [parMsg EXCEPT ![MessageOf(t)][ParFields[i].name] = c.val]
                   /\ parLeft' = [parLeft EXCEPT ![t] = @ \ {k}]
                   /\ UNCHANGED <<parOut, parPc>>
    /\ UNCHANGED <<parVal, nonParVars>>

\* line 178: message.SerializeToString()
ParSerialize(t) ==
    /\ parPc[t] = "parse"
    /\ parLeft[t] = {}
    /\ parOut' = [parOut EXCEPT ![t] =
                     Outcome("bytes", "-",
                             SerializeToString(ParFields, parMsg[MessageOf(t)]), NoDict)]
    /\ parPc' = [parPc EXCEPT ![t] = "done"]
    /\ UNCHANGED <<parVal, parLeft, parMsg, nonParVars>>

ParallelNext ==
    \E t \in Threads : ParNewMessage(t) \/ ParSetField(t) \/ ParSerialize(t)

SpecParallel == InitParallel /\ [][ParallelNext]_vars

(***************************************************************************)
(* The identifier rewrites of fix_proto.py and fix_proto_v2.py, and the    *)
(* schema text an upload stores and compiles.  A text is a sequence of     *)
(* symbols: the letters of an identifier prefix are one symbol ("IAB",     *)
(* and "CAT" and "SUB" where a rewrite writes them), the other symbols are *)
(* single characters.                                                      *)
(***************************************************************************)
MaxText == 5
MaxRuns == 2

Digits == {"1", "2"}
TextSymbols == {"IAB", "_", " ", "=", "\n"} \cup Digits

\* \d, \w and \s of the patterns
IsDigit(c) == c \in Digits
IsWord(c) == c \in Digits \cup {"IAB", "CAT", "SUB", "_"}

\* \s over the whole content (f.read()), and over one line of readlines():
\* the "\n" that ends a line is the last character of the line, so nothing
\* can follow it there
ContentSpace == {" ", "\n"}
LineSpace == {" "}

\* \b in front of the word character at position i
WordStart(text, i) == i = 1 \/ ~IsWord(text[i - 1])

RECURSIVE SkipSpace(_, _, _)
\* \s* from position i: the first position white space does not take
SkipSpace(text, i, space) ==
    IF i <= Len(text) /\ text[i] \in space
    THEN SkipSpace(text, i + 1, space)
    ELSE i

\* (?=\s*=) at position i
FollowedByEquals(text, i, space) ==
    LET j == SkipSpace(text, i, space)
    IN  j <= Len(text) /\ text[j] = "="

RECURSIVE DigitRun(_, _)
\* \d+ at position i: the length of the longest run of digits (a shorter run
\* is followed by a digit, which neither "_" nor the lookahead accepts)
DigitRun(text, i) ==
    IF i <= Len(text) /\ IsDigit(text[i])
    THEN 1 + DigitRun(text, i + 1)
    ELSE 0

\* fix_proto.py line 17: length of the match of \b(IAB)(\d{2})(?=\s*=) at
\* position i, 0 if there is none
MatchEnum(text, i) ==
    IF /\ text[i] = "IAB"
       /\ WordStart(text, i)
       /\ i + 2 <= Len(text)
       /\ IsDigit(text[i + 1])
       /\ IsDigit(text[i + 2])
       /\ FollowedByEquals(text, i + 3, ContentSpace)
    THEN 3
    ELSE 0

\* a replacement that puts the prefix in front of the identifier it matched
ReplacerPrefixes(group2) == <<"CAT", " ", "IAB">> \o group2

\* fix_proto.py lines 19-20: f'IAB_CAT_{match.group(2)}'
Replacer(group2) == <<"IAB", "_", "CAT", "_">> \o group2

RECURSIVE SubEnum(_, _)
\* fix_proto.py line 22: re.sub from position i on, leftmost matches first
SubEnum(text, i) ==
    IF i > Len(text)
    THEN << >>
    ELSE IF MatchEnum(text, i) > 0
         THEN Replacer(SubSeq(text, i + 1, i + 2)) \o SubEnum(text, i + 3)
         ELSE <<text[i]>> \o SubEnum(text, i + 1)

\* fix_proto.py lines 8-27, content in and content out
FixProtoEnums(text) == SubEnum(text, 1)

\* fix_proto_v2.py line 18: the lengths of groups 2 and 3 of the match of
\* \b(IAB)(\d+)_(\d+)(?=\s*=) at position i, <<0, 0>> if there is none
MatchSub(text, i) ==
    LET n2 == DigitRun(text, i + 1)
        n3 == DigitRun(text, i + n2 + 2)
    IN  IF /\ text[i] = "IAB"
           /\ WordStart(text, i)
           /\ n2 > 0
           /\ i + n2 + 1 <= Len(text)
           /\ text[i + n2 + 1] = "_"
           /\ n3 > 0
           /\ FollowedByEquals(text, i + n2 + n3 + 2, LineSpace)
        THEN <<n2, n3>>
        ELSE <<0, 0>>

\* fix_proto_v2.py line 19: r'IAB_\2_SUB_\3'
SubReplacement(group2, group3) ==
    <<"IAB", "_">> \o group2 \o <<"_", "SUB", "_">> \o group3

RECURSIVE SubSub(_, _)
\* fix_proto_v2.py lines 14-22: re.sub on every line; a match never crosses
\* a line end, so the lines are rewritten in one pass over the content
SubSub(text, i) ==
    IF i > Len(text)
    THEN << >>
    ELSE LET m == MatchSub(text, i)
         IN  IF m[1] > 0
             THEN SubReplacement(SubSeq(text, i + 1, i + m[1]),
                                 SubSeq(text, i + m[1] + 2, i + m[1] + m[2] + 1))
                      \o SubSub(text, i + m[1] + m[2] + 2)
             ELSE <<text[i]>> \o SubSub(text, i + 1)

\* fix_proto_v2.py lines 9-27, content in and content out
FixEnumsThoroughly(text) == SubSub(text, 1)

\* enum bodies as the scripts' comments show them: a two-digit code, the
\* same code with a sub-index, and a deeper one
SampleTexts ==
    { <<"IAB", "2", "1", " ", "=", " ", "1", "\n",
        "IAB", "2", "1", "_", "1", " ", "=", " ", "2">>,
      <<"IAB", "2", "1", " ", "=", " ", "1", "\n",
        "IAB", "2", "1", "_", "1", " ", "=", " ", "2", "\n",
        "IAB", "2", "1", "_", "1", "_", "2", " ", "=", " ", "1">>,
      <<"IAB", "2", "_", "1", "1", "=", "1", " ", "IAB", "1", "1", "\n", "=", "2">> }

MaxLines == 3

\* enum entries as the scripts' docstrings and comments name them, before
\* and after a rewrite (fix_proto.py rewrites its input file in place, so a
\* file it is given may hold identifiers an earlier run wrote)
EnumLines ==
    { <<"IAB", "2", "1", " ", "=", " ", "1">>,
      <<"IAB", "2", "1", "_", "1", " ", "=", " ", "2">>,
      <<"IAB", "2", "1", "_", "1", "_", "2", " ", "=", " ", "1">>,
      <<"IAB", "2", "_", "1", "1", " ", "=", " ", "2">>,
      <<"IAB", "_", "CAT", "_", "2", "1", " ", "=", " ", "2">>,
      <<"IAB", "_", "2", "1", "_", "SUB", "_", "1", " ", "=", " ", "1">> }

RECURSIVE JoinLines(_)
\* the content of a file with the given lines
JoinLines(lines) ==
    IF Len(lines) = 1
    THEN lines[1]
    ELSE lines[1] \o <<"\n">> \o JoinLines(Tail(lines))

\* enum bodies of up to MaxLines entries
EnumBodies ==
    {JoinLines(lines) : lines \in UNION {[1..n -> EnumLines] : n \in 1..MaxLines}}

\* the .proto files the scripts and the upload are given
SchemaTexts ==
    UNION {[1..n -> TextSymbols] : n \in 0..MaxText} \cup SampleTexts \cup EnumBodies

InitText ==
    /\ HandlerInit
    /\ CodecIdle
    /\ RespIdle
    /\ ParIdle
    /\ LaterIdle
    /\ txtIn \in SchemaTexts
    /\ txt = txtIn
    /\ runs = << >>
    /\ upc = "ready"
    /\ uploaded = << >>
    /\ stored = << >>
    /\ compiled = << >>

\* fix_proto.py, input_file = output_file as in its __main__
RunFixProtoEnums ==
    /\ Len(runs) < MaxRuns
    /\ txt' = FixProtoEnums(txt)
    /\ runs' = Append(runs, "fix_proto_enums")
    /\ UNCHANGED <<txtIn, upc, uploaded, stored, compiled, nonTextVars>>

\* fix_proto_v2.py on the same file
RunFixEnumsThoroughly ==
    /\ Len(runs) < MaxRuns
    /\ txt' = FixEnumsThoroughly(txt)
    /\ runs' = Append(runs, "fix_enums_thoroughly")
    /\ UNCHANGED <<txtIn, upc, uploaded, stored, compiled, nonTextVars>>

\* main.py lines 417-424: proto_content = await file.read();
\* save_proto_file writes proto_content as it is (handler lines 58-59);
\* compile_proto gives protoc the file that was written (lines 87-93)
UploadProtoFile ==
    /\ upc = "ready"
    /\ uploaded' = txt
    /\ stored' = uploaded'
    /\ compiled' = stored'
    /\ upc' = "compiled"
    /\ UNCHANGED <<txtIn, txt, runs, nonTextVars>>

TextNext == RunFixProtoEnums \/ RunFixEnumsThoroughly \/ UploadProtoFile

SpecText == InitText /\ [][TextNext]_vars

\* an upload of e is between its save and the end of compile_proto
Compiling(e) ==
    \E t \in Threads : env[t] = e /\ pc[t] \in {"compile", "protoc", "blocked", "writing", "evict"}

\* a delete_proto_files(e) is running
Deleting(e) ==
    \E t \in Threads : env[t] = e /\ pc[t] \in {"rmcompiled", "rmcache", "rmfailed"}

(***************************************************************************)
(* C1: cache invalidation.  Whenever no compile or deletion of E is        *)
(* running and the compiled artifact of E is complete, a cache entry for E *)
(* (which lines 250-251 hand to every call that starts now) is a binding   *)
(* built from that artifact, never one built from a superseded artifact.   *)
(***************************************************************************)
C1_NoStaleBinding ==
    \A e \in Envs :
        (/\ ~Compiling(e)
         /\ ~Deleting(e)
         /\ pb2File[e].complete
         /\ loaded[e] # NoModule)
            => loaded[e].src = pb2File[e].src

(***************************************************************************)
(* C2: at most one binding instance per environment.  Two threads that     *)
(* have both executed the same compiled artifact of the same environment   *)
(* and are about to store the result hold the same module instance.        *)
(***************************************************************************)
C2_SingleInstance ==
    \A t1, t2 \in Threads :
        (/\ pc[t1] = "store"
         /\ pc[t2] = "store"
         /\ env[t1] = env[t2]
         /\ local[t1].src = local[t2].src
         /\ local[t1].partial = local[t2].partial)
            => local[t1] = local[t2]

(***************************************************************************)
(* C3: a failed compile is not fatal and leaves the previous binding in    *)
(* place.  Every step in which compile_proto ends without having written   *)
(* an artifact returns the failure to the uploader and changes neither the *)
(* cache, nor the compiled artifacts, nor the descriptor pool, so later    *)
(* calls get the binding they would have got before the upload.            *)
(***************************************************************************)
C3_FailedCompileKeepsBinding ==
    [][\A t \in Threads :
          (pc[t] \in {"compile", "protoc"} /\ pc'[t] = "idle") =>
              /\ res'[t].op = "upload"
              /\ res'[t].out = "failed"
              /\ loaded' = loaded
              /\ pb2File' = pb2File
              /\ pool' = pool]_vars

\* an upload of invalid source has failed in compilation while the binding of
\* the earlier upload is cached and its artifact is on disk
C3_Witness ==
    \E t \in Threads, e \in Envs :
        /\ res[t].op = "upload"
        /\ res[t].out = "failed"
        /\ res[t].cause = "CompileError"
        /\ protoFile[e] = "bad"
        /\ loaded[e] # NoModule
        /\ loaded[e].src = "v1"
        /\ pb2File[e] = CompleteFile("v1")

(***************************************************************************)
(* C4: a recompile replaces the binding atomically.  No call works against *)
(* and the cache never holds a binding that was loaded from a compiled     *)
(* artifact which the compiler was still writing.                          *)
(***************************************************************************)
C4_NoHalfWrittenBinding ==
    /\ \A e \in Envs : ~loaded[e].partial
    /\ \A t \in Threads : ~local[t].partial /\ ~res[t].mod.partial

(***************************************************************************)
(* C5: isolation between environments.  While two environments hold        *)
(* compiled artifacts of different schemas that define a type of the same  *)
(* name, no operation has failed because of a type name that the schema of *)
(* the other environment registered in the process-wide descriptor pool.   *)
(***************************************************************************)
C5_Isolation ==
    (/\ pb2File["A"].complete
     /\ pb2File["B"].complete
     /\ pb2File["A"].src # pb2File["B"].src
     /\ SchemaMessages(pb2File["A"].src) \cap SchemaMessages(pb2File["B"].src) # {})
        => \A t \in Threads : res[t].why # "duplicate symbol"

(***************************************************************************)
(* C6: a failed load does not poison the cache.  A step in which           *)
(* _load_proto_module fails leaves the cache as it was and reports         *)
(* LoadError with no module; the cache, the module a call works against    *)
(* and the module a result came from are never a module whose execution    *)
(* failed (that object stays in sys.modules only, which no call reads).    *)
(***************************************************************************)
NoFailedModule ==
    /\ \A e \in Envs : loaded[e] # NoModule => loaded[e].ok
    /\ \A t \in Threads :
          /\ local[t] # NoModule => local[t].ok
          /\ res[t].mod # NoModule => res[t].mod.ok

C6_FailedLoadNoPoison ==
    /\ []NoFailedModule
    /\ [][\A t \in Threads :
             (pc[t] \in {"check", "exec"} /\ pc'[t] = "idle") =>
                 /\ loaded' = loaded
                 /\ res'[t].cause = "LoadError"
                 /\ res'[t].mod = NoModule]_vars

\* executing a half-written artifact has failed: the module object is left in
\* sys.modules, the cache has no entry
C6_Witness ==
    \E t \in Threads, e \in Envs :
        /\ res[t].cause = "LoadError"
        /\ res[t].why = "corrupt"
        /\ sysModules[e] # NoModule
        /\ ~sysModules[e].ok
        /\ loaded[e] = NoModule

(***************************************************************************)
(* C7: deletion evicts the binding.  Whenever the schema source and the    *)
(* compiled artifact of E are gone and no upload or deletion of E is       *)
(* running, the cache holds no entry for E.                                *)
(***************************************************************************)
C7_DeleteEvicts ==
    \A e \in Envs :
        (/\ protoFile[e] = "-"
         /\ ~pb2File[e].exists
         /\ ~Compiling(e)
         /\ ~Deleting(e))
            => loaded[e] = NoModule

ErrorKinds ==
    {"LoadError", "UnknownMessageType", "SchemaMismatch", "DecodeError", "CompileError"}

C9_KindsDistinguished ==
    \A t1, t2 \in Threads :
        (/\ res[t1].op \in {"encode", "decode"}
         /\ res[t2].op = res[t1].op
         /\ res[t1].cause \in ErrorKinds
         /\ res[t2].cause \in ErrorKinds
         /\ res[t1].cause # res[t2].cause)
            => /\ res[t1].out # res[t2].out
               /\ HttpStatus(res[t1].out) # HttpStatus(res[t2].out)

(***************************************************************************)
(* C10: round trip.  For a module, a message type T of it and a value v    *)
(* that conforms to T, protobuf_to_json(T, json_to_protobuf(T, v)) has     *)
(* only declared field names as keys and gives every field that v sets to  *)
(* a non-default value the same value, of the same type.                   *)
(***************************************************************************)
RoundTripEqual(fields, v, d) ==
    /\ DOMAIN d \subseteq FieldNames(fields)
    /\ \A i \in DOMAIN fields :
          LET nm == fields[i].name
          IN  (nm \in DOMAIN v /\ v[nm] # DefaultOf(fields[i].kind)) =>
                 (nm \in DOMAIN d /\ d[nm] = v[nm])

C10_RoundTrip ==
    (/\ cpc = "roundtrip"
     /\ cType \in MessageTypesOf(cMod)
     /\ Conforms(MessageFields(cMod.src, cType), cVal))
        => /\ cDec.out = "dict"
           /\ RoundTripEqual(MessageFields(cMod.src, cType), cVal, cDec.dict)

(***************************************************************************)
(* C11: encode ignores unknown extra keys.  For a value that has keys the  *)
(* message type does not declare and whose declared part conforms to the   *)
(* type, json_to_protobuf succeeds and returns the bytes it returns for    *)
(* the declared part alone.                                                *)
(***************************************************************************)
\* the value without the keys the message type does not declare
Declared(fields, js) ==
    [k \in DOMAIN js \cap FieldNames(fields) |-> js[k]]

C11_ExtraKeysIgnored ==
    LET f == MessageFields(cMod.src, cType)
    IN  (/\ cpc # "start"
         /\ cType \in MessageTypesOf(cMod)
         /\ ~(DOMAIN cVal \subseteq FieldNames(f))
         /\ Conforms(f, Declared(f, cVal)))
            => /\ cEnc.out = "bytes"
               /\ cEnc = JsonToProtobuf(cMod, cType, Declared(f, cVal))

(***************************************************************************)
(* C12: the response is transcoded too.  When the request goes through a   *)
(* protobuf environment and the target answers with a protobuf message,    *)
(* send_request returns the value decoded with the response message type,  *)
(* or a decode error; never the bytes or a placeholder for them.           *)
(***************************************************************************)
C12_ResponseDecoded ==
    (rpc = "done" /\ rUse /\ rRaw.kind = "wire") =>
        \E d \in BOOLEAN :
            LET o == ProtobufToJson(ResponseModule, rType, rRaw.wire, d)
            IN  IF o.out = "none"
                THEN rOut = 500
                ELSE rOut = 200 /\ rData = BDict(o.dict)

(***************************************************************************)
(* C13: get_message_types never fails.  Every finished get_message_types   *)
(* call has returned a list, and a call that found neither a cache entry   *)
(* nor a loadable compiled artifact (never uploaded, never compiled,       *)
(* deleted, or an artifact that does not execute) returned the empty list. *)
(***************************************************************************)
C13_NoBindingEmptyList ==
    /\ [](\A t \in Threads : res[t].op = "list" => res[t].out = "list")
    /\ [][\A t \in Threads :
             (pc[t] = "exec" /\ pc'[t] = "idle" /\ res'[t].op = "list") =>
                 /\ res'[t].out = "list"
                 /\ res'[t].mod = NoModule
                 /\ MessageTypesOf(res'[t].mod) = {}]_vars

\* a list call has found no binding and returned the empty list; a schema has
\* been uploaded and deleted again and no environment has a binding left
C13_Witness ==
    \E t1, t2 \in Threads :
        /\ res[t1].op = "list"
        /\ res[t1].out = "list"
        /\ res[t1].mod = NoModule
        /\ res[t1].why = "missing"
        /\ res[t2].op = "delete"
        /\ \A e \in Envs : protoFile[e] = "-" /\ ~pb2File[e].exists /\ loaded[e] = NoModule
        /\ \E e \in Envs : pool[e] # "-"

(***************************************************************************)
(* C14: the Message Catalog matches the active binding.  When an upload    *)
(* answers while the artifact it compiled is still the complete compiled   *)
(* artifact of its environment, the list of message types in its answer is *)
(* the set of message types of the schema it compiled.                     *)
(***************************************************************************)
C14_CatalogMatchesUpload ==
    [][\A t \in Threads :
          (/\ Uploading(t)
           /\ pc[t] \in {"use", "exec"}
           /\ pc'[t] = "idle"
           /\ pb2File[env[t]] = CompleteFile(csrc[t])) =>
              /\ res'[t].out = "compiled"
              /\ MessageTypesOf(res'[t].mod) = SchemaMessages(csrc[t])]_vars

C16_CompileReturns ==
    \A t \in Threads :
        pc[t] = "blocked" => ENABLED (NextTimeout /\ pc'[t] # "blocked")

(***************************************************************************)
(* C17: operations on one environment are mutually exclusive.  No two      *)
(* threads are at the same time inside compile_proto, inside the load of   *)
(* _load_proto_module or about to write or evict the cache entry of the    *)
(* same environment.                                                       *)
(***************************************************************************)
\* the thread is compiling, loading, or about to write or evict the cache entry
InCriticalOperation(t) ==
    pc[t] \in {"protoc", "writing", "evict", "exec", "store", "rmcache"}

C17_MutualExclusion ==
    \A t1, t2 \in Threads :
        (t1 # t2 /\ env[t1] = env[t2]) =>
            ~(InCriticalOperation(t1) /\ InCriticalOperation(t2))

(***************************************************************************)
(* C18: parallel encodes match a single-threaded run.  Every               *)
(* json_to_protobuf call that runs in parallel with others against the     *)
(* same binding and message type returns exactly what json_to_protobuf     *)
(* returns for its input when it runs alone, and returns bytes.            *)
(***************************************************************************)
C18_ParallelEncode ==
    \A t \in Threads :
        parPc[t] = "done" =>
            /\ parOut[t] = JsonToProtobuf(ParModule, ParType, parVal[t])
            /\ parOut[t].out = "bytes"

\* two calls with different inputs have both finished, each with its own bytes
C18_Witness ==
    /\ \A t \in Threads : parPc[t] = "done" /\ parOut[t].out = "bytes"
    /\ parVal["t1"] = [id |-> JInt(7), big |-> JInt(7)]
    /\ parVal["t2"] = [user_name |-> JStr("a"), flag |-> JBool(TRUE)]
    /\ parOut["t1"].bytes # parOut["t2"].bytes

\* the two rewrites applied one after the other
Sanitize(text) == FixEnumsThoroughly(FixProtoEnums(text))

(***************************************************************************)
(* C19: upload ordering.  The schema source an upload hands to the         *)
(* compiler is the sanitized form of the uploaded source: no upload stores *)
(* and compiles the raw text.                                              *)
(***************************************************************************)
C19_SanitizedBeforeCompile ==
    upc = "compiled" =>
        /\ stored = Sanitize(uploaded)
        /\ compiled = Sanitize(uploaded)

(***************************************************************************)
(* C20: the rewrites are idempotent.  A text that fix_proto_enums has just *)
(* written is left unchanged by fix_proto_enums, a text that               *)
(* fix_enums_thoroughly has just written is left unchanged by              *)
(* fix_enums_thoroughly, and a text written by the two applied one after   *)
(* the other is left unchanged by the two applied one after the other.     *)
(***************************************************************************)
C20_Idempotent ==
    /\ (runs # << >> /\ runs[Len(runs)] = "fix_proto_enums")
           => FixProtoEnums(txt) = txt
    /\ (runs # << >> /\ runs[Len(runs)] = "fix_enums_thoroughly")
           => FixEnumsThoroughly(txt) = txt
    /\ runs = <<"fix_proto_enums", "fix_enums_thoroughly">>
           => Sanitize(txt) = txt
    /\ runs = <<"fix_proto_enums", "fix_proto_enums">>
           => txt = FixProtoEnums(txtIn)
    /\ runs = <<"fix_enums_thoroughly", "fix_enums_thoroughly">>
           => txt = FixEnumsThoroughly(txtIn)

\* both rewrites have changed identifiers of the same text, one after the
\* other, and the result is a text none of them changes any more
C20_Witness ==
    /\ runs = <<"fix_proto_enums", "fix_enums_thoroughly">>
    /\ FixProtoEnums(txtIn) # txtIn
    /\ txt # FixProtoEnums(txtIn)
    /\ txt = Sanitize(txtIn)
    /\ Sanitize(txt) = txt

\* a proto identifier starts with a letter or "_"
IsIdentStart(c) == c \in {"IAB", "CAT", "SUB", "_"}

RECURSIVE WordEnd(_, _)
\* the first position from i on that holds no word character
WordEnd(text, i) ==
    IF i <= Len(text) /\ IsWord(text[i])
    THEN WordEnd(text, i + 1)
    ELSE i

\* the number an identifier that ends before position e is assigned
ValueAfter(text, e) ==
    LET v == SkipSpace(text, SkipSpace(text, e, ContentSpace) + 1, ContentSpace)
    IN  SubSeq(text, v, v + DigitRun(text, v) - 1)

RECURSIVE EntriesFrom(_, _)
\* the entries `identifier = number` of a text from position i on, in order
EntriesFrom(text, i) ==
    IF i > Len(text)
    THEN << >>
    ELSE IF IsIdentStart(text[i]) /\ WordStart(text, i)
         THEN LET e == WordEnd(text, i)
              IN  IF FollowedByEquals(text, e, ContentSpace)
                  THEN <<[id |-> SubSeq(text, i, e - 1), value |-> ValueAfter(text, e)]>>
                           \o EntriesFrom(text, e)
                  ELSE EntriesFrom(text, e)
         ELSE EntriesFrom(text, i + 1)

Entries(text) == EntriesFrom(text, 1)

\* both rewrites have been applied to the text, once each
Sanitized ==
    \/ runs = <<"fix_proto_enums", "fix_enums_thoroughly">>
    \/ runs = <<"fix_enums_thoroughly", "fix_proto_enums">>

\* the text holds a two-digit code and the same code with a sub-index
HasCollidingEntries(text) ==
    \E j, k \in DOMAIN Entries(text) :
        LET a == Entries(text)[j].id
            b == Entries(text)[k].id
        IN  /\ Len(a) = 3 /\ a[1] = "IAB" /\ IsDigit(a[2]) /\ IsDigit(a[3])
            /\ Len(b) > 4 /\ SubSeq(b, 1, 4) = a \o <<"_">>

(***************************************************************************)
(* C21: collision resolution.  For a text with an entry IABnn and entries  *)
(* IABnn_m (and deeper), the sanitized text has one entry per original     *)
(* entry, with the original number; different original identifiers are     *)
(* rewritten to different identifiers, and a rewritten identifier equals   *)
(* no identifier the text already held.                                    *)
(***************************************************************************)
C21_CollisionsResolved ==
    (Sanitized /\ HasCollidingEntries(txtIn)) =>
        LET old == Entries(txtIn)
            new == Entries(txt)
        IN  /\ Len(new) = Len(old)
            /\ \A k \in DOMAIN old : new[k].value = old[k].value
            /\ \A j, k \in DOMAIN old :
                   old[j].id # old[k].id => new[j].id # new[k].id
            /\ \A j, k \in DOMAIN old :
                   new[k].id # old[k].id => new[k].id # old[j].id

\* the same, for texts that hold no identifier of the shape a rewrite writes
C21_FreshTexts ==
    (\A k \in DOMAIN txtIn : txtIn[k] \notin {"CAT", "SUB"}) => C21_CollisionsResolved

(***************************************************************************)
(* C22: routing.  send_request calls the codec only for a request whose    *)
(* environment is stored with protocol 'protobuf' (of the environments     *)
(* here, only P); for every other request the outbound body and            *)
(* Content-Type are the payload's, no call reaches the protobuf handler    *)
(* (and with it the binding cache), no check rejects the request, and the  *)
(* response body is returned as the HTTP handler built it.                 *)
(***************************************************************************)
C22_Routing ==
    /\ codecCalls # << >> => payEnv = "P"
    /\ payEnv # "P" =>
           /\ codecCalls = << >>
           /\ ~useProtobuf
           /\ sendOut = 0
           /\ sendPc \in {"built", "sent"} =>
                  /\ outbound.body = payBody
                  /\ outbound.contentType = payCT
           /\ rpc = "done" => (rData = rBody /\ rOut = 200)

\* a request naming the stored JSON environment, which happens to have a
\* binding, went out with its JSON object as it was and was answered
C22_Witness ==
    /\ payEnv = "J"
    /\ envMod = ResponseModule
    /\ payReqType = "Foo"
    /\ payBody = BDict([id |-> JInt(7)])
    /\ outbound.sent
    /\ rpc = "done"

(***************************************************************************)
(* C27: for a protobuf environment nothing is sent before all checks have  *)
(* passed.  A missing request or response message type and a body that is  *)
(* not a JSON object end the call with 400, a failed encoding with 500,    *)
(* each without an outbound request; a request that is sent carries the    *)
(* encoded bytes and Content-Type application/x-protobuf.                  *)
(***************************************************************************)
C27_ChecksBeforeSend ==
    payEnv = "P" =>
        LET missing == payReqType \in {"none", ""} \/ payRespType \in {"none", ""}
            encoded == JsonToProtobuf(envMod, payReqType, payBody.dict)
            status == IF missing \/ payBody.t # "dict" THEN 400
                      ELSE IF encoded.out # "bytes" THEN 500
                      ELSE 0
        IN  /\ status # 0 =>
                   /\ sendPc \in {"start", "prepare", "raised"}
                   /\ sendPc = "raised" => sendOut = status
            /\ status = 0 => sendPc # "raised"
            /\ (missing /\ sendPc # "start") => sendPc = "raised"
            /\ sendPc = "raised" => (~outbound.sent /\ rpc = "off")
            /\ outbound.sent =>
                   /\ outbound.body = BBytes(encoded.bytes)
                   /\ outbound.contentType = "application/x-protobuf"

\* a request for the protobuf environment passed every check and went out
\* with the encoded message
C27_Witness ==
    /\ payEnv = "P"
    /\ payCT = "application/json"
    /\ outbound.sent
    /\ outbound.body.t = "bytes"
    /\ outbound.body.wire # << >>
    /\ rpc = "done"

(***************************************************************************)
(* C23: validate_config returns True exactly when the config has a 'url'   *)
(* key and its method (GET when absent), compared without regard to case,  *)
(* is one of the seven HTTP methods; for every other config it returns     *)
(* False, and it never raises.                                             *)
(***************************************************************************)
C23_ValidateConfig ==
    cfgPc = "done" =>
        LET valid ==
                /\ cfg.url.kind # "absent"
                /\ \/ cfg.method.kind = "absent"
                   \/ /\ cfg.method.kind = "str"
                      /\ \E m \in HttpMethods : Upper(m) = Upper(cfg.method.s)
        IN  cfgOut = IF valid THEN "True" ELSE "False"

\* the same for configs whose method entry, when there is one, is a str
C23_StrMethods ==
    cfg.method.kind \in {"absent", "str"} => C23_ValidateConfig

(***************************************************************************)
(* C24: concurrent uploads for one environment.  While the stored source   *)
(* and the output directory of E are in place, the compiler accepts an     *)
(* upload only if it is compiling that upload's own source and that source *)
(* compiles, and rejects it only if the upload's own source does not       *)
(* compile; and when an upload returns success with nothing else running   *)
(* on E, the artifact of E is the complete output for the stored source    *)
(* and a cached binding of E was built from it.                            *)
(***************************************************************************)
C24_ConcurrentUploads ==
    [][\A t \in Threads :
          LET e == env[t]
          IN  /\ (/\ pc[t] = "protoc" /\ pc'[t] = "writing")
                     => (csrc[t] \in Schemas /\ protoFile[e] = csrc[t])
              /\ (/\ pc[t] = "protoc" /\ pc'[t] = "idle"
                  /\ protoFile[e] # "-" /\ compiledDir[e])
                     => csrc[t] \notin Schemas
              /\ (/\ Uploading(t) /\ pc'[t] = "idle" /\ res'[t].out = "compiled"
                  /\ protoFile[e] # "-"
                  /\ \A u \in Threads \ {t} : pc[u] = "idle" \/ env[u] # e)
                     => /\ pb2File'[e] = CompleteFile(protoFile[e])
                        /\ loaded'[e] \in {NoModule} \cup
                               {Module(protoFile[e], u) : u \in Threads}]_vars

(***************************************************************************)
(* C25: a cache entry needs its files.  When a delete_proto_files(E)       *)
(* returns, True or False, a cache entry for E exists only if the schema   *)
(* source and the compiled artifact of E both exist: no delete leaves E    *)
(* with its source removed and its cached binding still served.            *)
(***************************************************************************)
C25_CacheNeedsFiles ==
    [][\A t \in Threads :
          (pc[t] \in {"rmcache", "rmfailed"} /\ pc'[t] = "idle") =>
              (loaded'[env[t]] # NoModule =>
                   /\ protoFile'[env[t]] # "-"
                   /\ pb2File'[env[t]].exists)]_vars

(***************************************************************************)
(* C26: the upload route rejects before any side effect.  A request for an *)
(* environment that is not stored is answered 404, one for an environment  *)
(* whose protocol is not 'protobuf' or with a file name that does not end  *)
(* in .proto is answered 400; in each case the stored source, the compiled *)
(* artifact, the output directory and the cache of every environment are   *)
(* as before, and the thread does not enter the compile.                   *)
(***************************************************************************)
C26_RejectBeforeEffect ==
    [][\A t \in RouteThreads :
          (calls' = calls + 1) =>
              LET e == rtName'[t]
                  f == rtFile'[t]
                  unknown == envProto[e] = "absent"
                  wrongProtocol == envProto[e] # "protobuf"
                  wrongFile == Len(f) < 6 \/ SubSeq(f, Len(f) - 5, Len(f)) # <<".", "p", "r", "o", "t", "o">>
              IN  (unknown \/ wrongProtocol \/ wrongFile) =>
                      /\ rtOut'[t] = IF unknown THEN 404 ELSE 400
                      /\ pc'[t] = "idle"
                      /\ UNCHANGED <<protoFile, pb2File, compiledDir, loaded, sysModules, pool>>]_vars

\* an environment with a stored source, an artifact and a cached binding was
\* changed to the JSON protocol, and an upload for it was answered 400
C26_Witness ==
    \E e \in Envs :
        /\ rtName["t1"] = e
        /\ rtOut["t1"] = 400
        /\ rtFile["t1"] = <<"a">> \o ProtoSuffix
        /\ envProto[e] = "json"
        /\ protoFile[e] \in Schemas
        /\ pb2File[e].complete
        /\ loaded[e] # NoModule

(***************************************************************************)
(* C28: accounting of the assertion engine.  After any sequence of         *)
(* evaluate, evaluate_all and reset, get_summary reports as total the      *)
(* number of assertions given to the engine since the last reset, passed + *)
(* failed = total, failed counts the assertions that did not evaluate to   *)
(* True (those that raised included), all_passed is true exactly when      *)
(* there is none of them, and a call that evaluated assertions returned    *)
(* and recorded one result for every one of them.                          *)
(***************************************************************************)
C28_Accounting ==
    /\ GetSummary.total = evaluated
    /\ GetSummary.passed + GetSummary.failed = GetSummary.total
    /\ GetSummary.failed = failures
    /\ AllPassed <=> (failures = 0)
    /\ \A i \in DOMAIN results :
           results[i].assertion \in {"KeyError", "NameError"} => ~results[i].passed
    /\ [][evaluated' > evaluated =>
             /\ Len(returned') = evaluated' - evaluated
             /\ results' = results \o returned']_vars

\* an evaluate_all whose first assertion raised went on to the second one,
\* which passed
C28_Witness ==
    /\ evaluated = 3
    /\ returned = <<AssertionResult("KeyError"), AssertionResult("True")>>
    /\ results = <<AssertionResult("True")>> \o returned
    /\ GetSummary = [total |-> 3, passed |-> 2, failed |-> 1]

\* the runList of a scenario, and the one of them completed last
RunsOf(scenarioId) == {i \in DOMAIN runList : runList[i].scenario_id = scenarioId}
HasRunning(scenarioId) == \E i \in RunsOf(scenarioId) : runList[i].status = "running"
LastCompletedIs(scenarioId, status) ==
    \E i \in RunsOf(scenarioId) :
        /\ runList[i].completed_at > 0
        /\ runList[i].status = status
        /\ \A j \in RunsOf(scenarioId) : runList[j].completed_at <= runList[i].completed_at

(***************************************************************************)
(* C29: run lifecycle of PressureStorage.  After any sequence of           *)
(* create_scenario, create_run, complete_run and delete_scenario, a        *)
(* scenario with a run in status running has status running, a scenario    *)
(* has status success or failed only when the run of it completed last has *)
(* that status and none of its runList is running, and every stored run       *)
(* refers to a stored scenario.                                            *)
(***************************************************************************)
C29_RunLifecycle ==
    /\ \A s \in DOMAIN scenarios :
           HasRunning(scenarios[s].id) => scenarios[s].status = "running"
    /\ \A s \in DOMAIN scenarios :
           scenarios[s].status \in {"success", "failed"} =>
               /\ LastCompletedIs(scenarios[s].id, scenarios[s].status)
               /\ ~HasRunning(scenarios[s].id)
    /\ \A i \in DOMAIN runList :
           \E s \in DOMAIN scenarios : scenarios[s].id = runList[i].scenario_id

IsFinalEvent(e) == e.type \in {"complete", "error"}

(***************************************************************************)
(* C30: the event stream of generate_testcases_stream terminates once the  *)
(* generation thread has ended, whether it succeeded or raised.  The       *)
(* progress events emitted are at every moment the first of those the      *)
(* generator reported, and all of them once a final event is out; a        *)
(* complete or error event is the last event emitted, so there is at most  *)
(* one; a stream that has ended has emitted one and the uploaded file is   *)
(* gone.                                                                   *)
(***************************************************************************)
C30_StreamTerminates ==
    /\ [](\A i \in DOMAIN emitted : IsFinalEvent(emitted[i]) => i = Len(emitted))
    /\ [](/\ Len(ProgressOf(emitted)) <= Len(reported)
          /\ ProgressOf(emitted) = SubSeq(reported, 1, Len(ProgressOf(emitted))))
    /\ [](streamPc \in {"final", "done"} =>
             /\ emitted # << >>
             /\ IsFinalEvent(emitted[Len(emitted)])
             /\ ProgressOf(emitted) = reported)
    /\ [](streamPc = "done" => ~fileExists)
    /\ (genPc = "ended") ~> (streamPc = "done")

\* the thread raised after two progress reports; both were emitted, then the
\* error event, and the file is gone
C30_Witness ==
    /\ streamPc = "done"
    /\ genPc = "ended"
    /\ error_container = "error"
    /\ Len(reported) = 2
    /\ ProgressOf(emitted) = reported
    /\ emitted[Len(emitted)] = Event("error")
    /\ ~fileExists

=============================================================================
